---- MODULE Spec2Model ----
(***************************************************************************)
(* A model of py-kis: the asynchronous Auth Manager (token lifecycle and   *)
(* its token file), the historical range aggregator (QuoteAPI over the     *)
(* Transport's result-code mapping), the streaming feed (WebSocketClient), *)
(* the two execution modes (KIS / AsyncKIS) and the Ticker decoders.  Each *)
(* component has its own specification over the shared variable list; the  *)
(* variables of the other components stay at their initial values.         *)
(***************************************************************************)
EXTENDS Integers, Sequences, FiniteSets, TLC

(***************************************************************************)
(* Bounds of the model                                                     *)
(***************************************************************************)
NumCallers == 2          \* concurrent get_headers() callers
MaxCalls == 3            \* get_headers() calls made in all
MaxTicks == 2            \* clock advances explored
MaxItems == 2            \* candles the vendor returns over one pass
EpochYear == 2020        \* the calendar year day number 0 falls in
MaxConnects == 2         \* connect() calls made on the WebSocketClient
MaxFrames == 2           \* frames the vendor sends

(***************************************************************************)
(* Program constants                                                       *)
(***************************************************************************)
Margin == 300              \* timedelta(minutes=5), in seconds
DefaultExpiresIn == 86400  \* data.get("expires_in", 86400)

(***************************************************************************)
(* Auth Manager: values                                                    *)
(***************************************************************************)
Callers == 1..NumCallers
NoToken == "None"          \* self._token is None
NoExpiry == -1             \* self._expires is None
Tokens == {"tokA", "tokB"} \* access_token values the vendor hands out
\* datetime.isoformat() / datetime.fromisoformat(): the text is the date and
\* the time of day, "YYYY-MM-DDTHH:MM:SS", held as its two parts
SecondsPerDay == 24 * 3600

Isoformat(t) == [date |-> t \div SecondsPerDay, time |-> t % SecondsPerDay]

FromIsoformat(x) == x.date * SecondsPerDay + x.time

\* the "expires_at" of a file content that has none to parse
NoIso == [date |-> -1, time |-> 0]

\* content of the token file: absent, not JSON (or truncated), or the JSON
\* object _save_token() writes
Missing == [kind |-> "missing", token |-> NoToken, expires_at |-> NoIso]
Corrupt == [kind |-> "corrupt", token |-> NoToken, expires_at |-> NoIso]
\* JSON that is not an object (a list, a string, a number, null)
NotObject == [kind |-> "not_object", token |-> NoToken, expires_at |-> NoIso]
\* a JSON object without "expires_at", or with a live one and without "token"
KeysMissing == [kind |-> "keys_missing", token |-> NoToken, expires_at |-> NoIso]
\* a JSON object whose "expires_at" is null
ExpiresNull == [kind |-> "expires_null", token |-> "tokA", expires_at |-> NoIso]
\* a JSON object whose "expires_at" is a string fromisoformat() rejects
ExpiresNotDate == [kind |-> "expires_not_date", token |-> "tokA", expires_at |-> NoIso]

\* expires_in values of a token-issuance response; "absent" = key missing,
\* "bad" = a value timedelta(seconds=...) rejects (TypeError)
AbsentExpiresIn == [kind |-> "absent", secs |-> 0]
BadExpiresIn == [kind |-> "bad", secs |-> 0]
ExpiresInValues ==
    [kind : {"num"}, secs : {Margin, 600}] \cup {AbsentExpiresIn, BadExpiresIn}
TickSteps == {Margin, DefaultExpiresIn}

\* contents of the token file found by __init__
InitStores ==
    {Missing, Corrupt, NotObject, KeysMissing, ExpiresNull, ExpiresNotDate} \cup
    [kind : {"json"}, token : {"tokA"}, expires_at : {Isoformat(200), Isoformat(1000)}]

VARIABLES
    now,        \* datetime.now(), seconds
    ticks,      \* number of clock advances so far
    token,      \* AsyncAuthManager._token
    expires,    \* AsyncAuthManager._expires
    store,      \* content of the file at AsyncAuthManager._path
    netCalls,   \* token-issuance POSTs issued so far
    issued,     \* credentials produced by successful refreshes so far
    pc,         \* position of each caller's get_headers() coroutine
    ncalls,     \* get_headers() calls started so far
    callsBy,    \* token-issuance POSTs issued by the current call
    pending,    \* outcome of _refresh() while the http client closes
    ret,        \* bearer token of the headers the call returned
    retValid,   \* at return: ret is the held token, outside the margin
    err,        \* kind of the exception the call raised
    oblig,      \* tokens of refreshed credentials valid when the call began
    cause,      \* what made the _refresh() of the current call fail
    loadErr     \* kind of the exception __init__ raised out of _load_token()

authVars == <<now, ticks, token, expires, store, netCalls, issued, pc, ncalls,
              callsBy, pending, ret, retValid, err, oblig, cause, loadErr>>

VARIABLES
    peerPc,      \* a second manager on the same token file: its position
    peerToken,   \* its _token
    peerExpires, \* its _expires
    peerCalls    \* token-issuance POSTs its get_headers() call issued

peerVars == <<peerPc, peerToken, peerExpires, peerCalls>>

VARIABLES
    rpc,          \* position of the aggregation pass
    isPaper,      \* is_paper of the KIS client
    op,           \* the operation running: fetch_ohlcv_range, fetch_minute_ohlcv
                  \* or fetch_minute_ohlcv_range
    interval,     \* interval argument of fetch_minute_ohlcv
    anchor,       \* index in times of the anchor being fetched
    startStr,     \* start (YYYYMMDD)
    endStr,       \* end (YYYYMMDD)
    timeframe,    \* timeframe argument
    currentEnd,   \* current_end, as a day number
    currentStart, \* current_start of the window being fetched
    allData,      \* all_data: the dict, as its (key, value) pairs in order
    requestCount, \* request_count
    windows,      \* FID_INPUT_DATE_1 / _2 of the calls issued, in order
    responses,    \* output2 of the successful window responses, in order
    sleeps,       \* time.sleep(self._delay) calls made
    result,       \* the list fetch_ohlcv_range returned
    rerr,         \* kind of the exception fetch_ohlcv_range raised
    failedAt,     \* index of the window answered with a failed result code
    failCode      \* msg_cd of that response

rangeVars == <<rpc, isPaper, op, interval, anchor, startStr, endStr, timeframe, currentEnd, currentStart,
               allData, requestCount, windows, responses, sleeps, result,
               rerr, failedAt, failCode>>

VARIABLES
    ws,          \* WebSocketClient._ws: 0 for None, else the socket held
    approvalKey, \* WebSocketClient._approval_key is set
    sockOpen,    \* the sockets opened so far: TRUE while open
    inbound,     \* frames received on each socket and not yet consumed
    sentMsgs,    \* subscription messages sent, with the socket used
    nframes,     \* frames the vendor has sent
    wpc,         \* position of each watch_ticker generator
    wsock,       \* the socket each generator iterates over
    yielded,     \* the Tickers each generator yielded, with their frames
    werr,        \* kind of the exception that ended each generator
    taken,       \* the frames each generator took from its socket, in order
    connects,    \* connect() calls made so far
    dropped      \* the sockets the vendor or the network has closed

wsVars == <<ws, approvalKey, sockOpen, inbound, sentMsgs, nframes, wpc, wsock,
            yielded, werr, taken, connects, dropped>>

VARIABLES
    mOp,    \* the client operation called in both execution modes
    mResp,  \* the vendor response its request was answered with
    mOut    \* per mode: "idle", "none" (a result was returned) or the kind
            \* of the exception raised

modeVars == <<mOp, mResp, mOut>>

VARIABLES
    quote,   \* raw quote fields the vendor sent: sign, change, pct
    decoded, \* the Ticker decoded from them
    decoder  \* who decoded it: "none", "stream" or "rest"

tickVars == <<quote, decoded, decoder>>

VARIABLES
    fData,   \* the body the Transport returned: output2 and output
    fLimit,  \* the limit argument
    fOut,    \* per mode: the list fetch_ohlcv returned
    fDone    \* per mode: fetch_ohlcv has returned

ohlcvVars == <<fData, fLimit, fOut, fDone>>

VARIABLES
    kpc,            \* the async with block: "inside", "closing" (close() has
                    \* closed the Transport), "left"
    kExit,          \* how the block is left: "none", "normal" or "exception"
    kHttp,          \* AsyncHTTPClient._client is an httpx.AsyncClient
    httpOpened,     \* httpx.AsyncClient objects created
    httpAclosed,    \* aclose() calls made on them
    httpCloseCalls, \* AsyncHTTPClient.close() calls made
    kWs,            \* AsyncKIS._ws is a WebSocketClient
    wsCreated,      \* WebSocketClient objects created
    wsDisconnects,  \* disconnect() calls made by close()
    tpc,            \* position of each AsyncKIS.watch_ticker call
    handed          \* per call: the client _ensure_ws_connected returned had
                    \* ("connected") or had not ("unconnected") a socket

kisVars == <<kpc, kExit, kHttp, httpOpened, httpAclosed, httpCloseCalls, kWs,
             wsCreated, wsDisconnects, tpc, handed>>

VARIABLES
    hpc,      \* per mode: position of the Transport call: "idle", "auth",
              \* "auth_raised" (get_headers() raised), "awaiting",
              \* "returned" or "raised" (the request or its response raised)
    hVerb,    \* per mode: "GET" or "POST"
    hTrId,    \* per mode: the tr_id argument
    hHeaders, \* per mode: the dict get_headers() returned
    hSent,    \* per mode: the HTTP requests issued, in order
    hLog,     \* per mode: the calls made, in order
    hOut      \* per mode: "none" or the kind of the exception raised

httpVars == <<hpc, hVerb, hTrId, hHeaders, hSent, hLog, hOut>>

vars == <<authVars, peerVars, rangeVars, wsVars, modeVars, tickVars, ohlcvVars, kisVars, httpVars>>

\* _is_expired with the margin boundary left out
IsExpiredAt_StrictlyAfter(tok, exp, t) ==
    IF tok = NoToken \/ exp = NoExpiry
    THEN TRUE
    ELSE t > exp - Margin

(***************************************************************************)
(* AsyncAuthManager._is_expired                                            *)
(***************************************************************************)
IsExpiredAt(tok, exp, t) ==
    IF tok = NoToken \/ exp = NoExpiry
    THEN TRUE
    ELSE t >= exp - Margin

IsExpired == IsExpiredAt(token, expires, now)

(***************************************************************************)
(* AsyncAuthManager._load_token: the held token / expiry after loading     *)
(* file content s at time t.                                               *)
(***************************************************************************)
LoadTok(s, t) ==
    IF s.kind # "json" THEN NoToken
    ELSE IF FromIsoformat(s.expires_at) > t THEN s.token ELSE NoToken

LoadExp(s, t) ==
    IF s.kind # "json" THEN NoExpiry
    ELSE IF FromIsoformat(s.expires_at) > t
         THEN FromIsoformat(s.expires_at) ELSE NoExpiry

\* _load_token: the exception that leaves it, "none" when it returns.
\* data["expires_at"] on a value that is not a dict and fromisoformat(None)
\* raise TypeError, which the except clause does not list.
LoadError(s) ==
    IF s.kind \in {"not_object", "expires_null"} THEN "TypeError" ELSE "none"

AuthConstructed ==
    /\ now = 0
    /\ ticks = 0
    /\ \E s \in InitStores :
          /\ store = s
          /\ token = LoadTok(s, 0)
          /\ expires = LoadExp(s, 0)
          /\ loadErr = LoadError(s)
    /\ netCalls = 0
    /\ issued = {}
    /\ pc = [c \in Callers |-> "idle"]
    /\ ncalls = 0
    /\ callsBy = [c \in Callers |-> 0]
    /\ pending = [c \in Callers |-> "none"]
    /\ ret = [c \in Callers |-> NoToken]
    /\ retValid = [c \in Callers |-> FALSE]
    /\ err = [c \in Callers |-> "none"]
    /\ oblig = [c \in Callers |-> {}]
    /\ cause = [c \in Callers |-> "none"]

\* the Auth Manager constructed on a missing token file, with no call made
AuthQuiet ==
    /\ now = 0
    /\ ticks = 0
    /\ store = Missing
    /\ token = NoToken
    /\ expires = NoExpiry
    /\ loadErr = "none"
    /\ netCalls = 0
    /\ issued = {}
    /\ pc = [c \in Callers |-> "idle"]
    /\ ncalls = 0
    /\ callsBy = [c \in Callers |-> 0]
    /\ pending = [c \in Callers |-> "none"]
    /\ ret = [c \in Callers |-> NoToken]
    /\ retValid = [c \in Callers |-> FALSE]
    /\ err = [c \in Callers |-> "none"]
    /\ oblig = [c \in Callers |-> {}]
    /\ cause = [c \in Callers |-> "none"]

(***************************************************************************)
(* get_headers(), first part: the _is_expired() test; either the headers   *)
(* are returned at once from the held token, or _refresh() opens the http  *)
(* client and issues the POST, and the coroutine suspends.                 *)
(***************************************************************************)
GetHeadersCall(c) ==
    /\ loadErr = "none"
    /\ pc[c] \in {"idle", "returned", "raised"}
    /\ ncalls < MaxCalls
    /\ ncalls' = ncalls + 1
    /\ oblig' = [oblig EXCEPT ![c] =
                    {r.tok : r \in {q \in issued : now < q.exp - Margin}}]
    /\ err' = [err EXCEPT ![c] = "none"]
    /\ pending' = [pending EXCEPT ![c] = "none"]
    /\ cause' = [cause EXCEPT ![c] = "none"]
    /\ IF IsExpired
       THEN /\ netCalls' = netCalls + 1
            /\ callsBy' = [callsBy EXCEPT ![c] = 1]
            /\ pc' = [pc EXCEPT ![c] = "awaiting"]
            /\ ret' = [ret EXCEPT ![c] = NoToken]
            /\ retValid' = [retValid EXCEPT ![c] = FALSE]
       ELSE /\ callsBy' = [callsBy EXCEPT ![c] = 0]
            /\ pc' = [pc EXCEPT ![c] = "returned"]
            /\ ret' = [ret EXCEPT ![c] = token]
            /\ retValid' = [retValid EXCEPT ![c] = ~IsExpired]
            /\ UNCHANGED netCalls
    /\ UNCHANGED <<now, ticks, token, expires, store, issued, loadErr>>

\* _refresh() that issues the POST again after an HTTP error
RefreshHttpError_Retry(c) ==
    /\ pc[c] = "awaiting"
    /\ callsBy[c] < 2
    /\ netCalls' = netCalls + 1
    /\ callsBy' = [callsBy EXCEPT ![c] = @ + 1]
    /\ cause' = [cause EXCEPT ![c] = "http"]
    /\ UNCHANGED <<now, ticks, token, expires, store, issued, pc, ncalls,
                   pending, ret, retValid, err, oblig, loadErr>>

(***************************************************************************)
(* _refresh(): the POST fails (transport error, or raise_for_status on a   *)
(* non-2xx status): httpx.HTTPError, re-raised as AuthenticationError.     *)
(***************************************************************************)
RefreshHttpError(c) ==
    /\ pc[c] = "awaiting"
    /\ pc' = [pc EXCEPT ![c] = "closing"]
    /\ pending' = [pending EXCEPT ![c] = "AuthenticationError"]
    /\ cause' = [cause EXCEPT ![c] = "http"]
    /\ UNCHANGED <<now, ticks, token, expires, store, netCalls, issued, ncalls,
                   callsBy, ret, retValid, err, oblig, loadErr>>

(***************************************************************************)
(* _refresh(): resp.json() fails on a body that is not JSON; the           *)
(* JSONDecodeError is not an httpx.HTTPError and is not caught.            *)
(***************************************************************************)
RefreshBadBody(c) ==
    /\ pc[c] = "awaiting"
    /\ pc' = [pc EXCEPT ![c] = "closing"]
    /\ pending' = [pending EXCEPT ![c] = "JSONDecodeError"]
    /\ cause' = [cause EXCEPT ![c] = "body"]
    /\ UNCHANGED <<now, ticks, token, expires, store, netCalls, issued, ncalls,
                   callsBy, ret, retValid, err, oblig, loadErr>>

(***************************************************************************)
(* _refresh(): a JSON body without access_token.                           *)
(***************************************************************************)
RefreshNoToken(c) ==
    /\ pc[c] = "awaiting"
    /\ pc' = [pc EXCEPT ![c] = "closing"]
    /\ pending' = [pending EXCEPT ![c] = "AuthenticationError"]
    /\ cause' = [cause EXCEPT ![c] = "no_token"]
    /\ UNCHANGED <<now, ticks, token, expires, store, netCalls, issued, ncalls,
                   callsBy, ret, retValid, err, oblig, loadErr>>

\* _save_token() that writes the time of issue as "expires_at"
SavedRecord_IssueTime(tok, exp) ==
    [kind |-> "json", token |-> tok, expires_at |-> Isoformat(now)]

(***************************************************************************)
(* _save_token(): the file content written for a held token and expiry.    *)
(***************************************************************************)
SavedRecord(tok, exp) ==
    [kind |-> "json", token |-> tok, expires_at |-> Isoformat(exp)]

ExpiresInSeconds(e) == IF e.kind = "absent" THEN DefaultExpiresIn ELSE e.secs

(***************************************************************************)
(* _refresh(): a body with access_token t and expires_in e.  The token is  *)
(* assigned first, then the expiry (TypeError on a value timedelta         *)
(* rejects), then _save_token() writes the file; mkdir or write_text may   *)
(* raise OSError, leaving the file as it was or truncated.                 *)
(***************************************************************************)
RefreshOk(c) ==
    /\ pc[c] = "awaiting"
    /\ \E t \in Tokens, e \in ExpiresInValues, sv \in {"saved", "mkdir_fails", "write_fails"} :
          /\ token' = t
          /\ IF e.kind = "bad"
             THEN /\ pending' = [pending EXCEPT ![c] = "TypeError"]
                  /\ cause' = [cause EXCEPT ![c] = "expires_in"]
                  /\ UNCHANGED <<expires, store, issued>>
             ELSE /\ expires' = now + ExpiresInSeconds(e)
                  /\ IF sv = "saved"
                     THEN /\ store' = SavedRecord(t, now + ExpiresInSeconds(e))
                          /\ pending' = [pending EXCEPT ![c] = "ok"]
                          /\ UNCHANGED cause
                          /\ issued' = issued \cup
                                 {[tok |-> t, exp |-> now + ExpiresInSeconds(e)]}
                     ELSE /\ store' = IF sv = "mkdir_fails" THEN store ELSE Corrupt
                          /\ pending' = [pending EXCEPT ![c] = "OSError"]
                          /\ cause' = [cause EXCEPT ![c] = "save"]
                          /\ UNCHANGED issued
    /\ pc' = [pc EXCEPT ![c] = "closing"]
    /\ UNCHANGED <<now, ticks, netCalls, ncalls, callsBy, ret,
                   retValid, err, oblig, loadErr>>

(***************************************************************************)
(* The http client of _refresh() has closed (async with exit): the pending *)
(* exception propagates out of get_headers(), or get_headers() builds the  *)
(* headers from the token held now.                                        *)
(***************************************************************************)
GetHeadersFinish(c) ==
    /\ pc[c] = "closing"
    /\ IF pending[c] = "ok"
       THEN /\ pc' = [pc EXCEPT ![c] = "returned"]
            /\ ret' = [ret EXCEPT ![c] = token]
            /\ retValid' = [retValid EXCEPT ![c] = ~IsExpired]
            /\ UNCHANGED err
       ELSE /\ pc' = [pc EXCEPT ![c] = "raised"]
            /\ err' = [err EXCEPT ![c] = pending[c]]
            /\ UNCHANGED <<ret, retValid>>
    /\ pending' = [pending EXCEPT ![c] = "none"]
    /\ UNCHANGED <<now, ticks, token, expires, store, netCalls, issued, ncalls,
                   callsBy, oblig, cause, loadErr>>

(***************************************************************************)
(* The clock advances.                                                     *)
(***************************************************************************)
Tick ==
    /\ ticks < MaxTicks
    /\ \E d \in TickSteps : now' = now + d
    /\ ticks' = ticks + 1
    /\ UNCHANGED <<token, expires, store, netCalls, issued, pc, ncalls,
                   callsBy, pending, ret, retValid, err, oblig, cause, loadErr>>

(***************************************************************************)
(* A second AsyncAuthManager, in another process, with the same app_key    *)
(* and so the same token file.                                             *)
(***************************************************************************)
PeerAbsent ==
    /\ peerPc = "absent"
    /\ peerToken = NoToken
    /\ peerExpires = NoExpiry
    /\ peerCalls = 0

\* __init__: _load_token() reads the file as it is now
PeerConstruct ==
    /\ peerPc = "absent"
    /\ peerPc' = IF LoadError(store) = "none" THEN "built" ELSE "raised"
    /\ peerToken' = LoadTok(store, now)
    /\ peerExpires' = LoadExp(store, now)
    /\ UNCHANGED peerCalls

\* get_headers() of the second manager up to its suspension: the headers are
\* returned from the held token, or _refresh() issues its POST.  The refresh
\* that follows is the one modelled for the first manager and is not followed.
PeerGetHeaders ==
    /\ peerPc \in {"built", "returned"}
    /\ IF IsExpiredAt(peerToken, peerExpires, now)
       THEN peerPc' = "awaiting" /\ peerCalls' = 1
       ELSE peerPc' = "returned" /\ peerCalls' = 0
    /\ UNCHANGED <<peerToken, peerExpires>>

(***************************************************************************)
(* Calendar: dates are day numbers counted from 1 January of EpochYear     *)
(* (datetime values at midnight); date strings are the YYYYMMDD numerals   *)
(* of strftime("%Y%m%d"), 0 standing for the empty string.  On eight-digit *)
(* numerals the string order of Python is the numeric order.               *)
(***************************************************************************)
IsLeap(y) == (y % 4 = 0 /\ y % 100 # 0) \/ y % 400 = 0

DaysInYear(y) == IF IsLeap(y) THEN 366 ELSE 365

DaysInMonth(y, m) ==
    IF m = 2 THEN (IF IsLeap(y) THEN 29 ELSE 28)
    ELSE IF m \in {4, 6, 9, 11} THEN 30 ELSE 31

RECURSIVE YMD(_, _, _)
YMD(y, m, d) ==
    IF d >= DaysInMonth(y, m)
    THEN IF m = 12 THEN YMD(y + 1, 1, d - DaysInMonth(y, m))
                   ELSE YMD(y, m + 1, d - DaysInMonth(y, m))
    ELSE y * 10000 + m * 100 + d + 1

\* datetime.strftime("%Y%m%d")
Strftime(day) == YMD(EpochYear, 1, day)

RECURSIVE DaysBeforeYear(_)
DaysBeforeYear(y) ==
    IF y <= EpochYear THEN 0 ELSE DaysBeforeYear(y - 1) + DaysInYear(y - 1)

RECURSIVE DaysBeforeMonth(_, _)
DaysBeforeMonth(y, m) ==
    IF m <= 1 THEN 0 ELSE DaysBeforeMonth(y, m - 1) + DaysInMonth(y, m - 1)

\* datetime.strptime(s, "%Y%m%d")
Strptime(s) ==
    DaysBeforeYear(s \div 10000) + DaysBeforeMonth(s \div 10000, (s \div 100) % 100)
        + (s % 100) - 1

(***************************************************************************)
(* Exceptions: the class hierarchy and the vendor-code table               *)
(***************************************************************************)
ExceptionParent ==
    [k \in {"AuthenticationError", "TokenExpiredError", "APIError",
            "RateLimitError", "OrderError", "InsufficientBalanceError",
            "MarketClosedError"} |->
        CASE k = "AuthenticationError" -> "KISError"
          [] k = "TokenExpiredError" -> "AuthenticationError"
          [] k = "APIError" -> "KISError"
          [] k = "RateLimitError" -> "APIError"
          [] k = "OrderError" -> "APIError"
          [] k = "InsufficientBalanceError" -> "OrderError"
          [] k = "MarketClosedError" -> "OrderError"]

RECURSIVE IsSubclass(_, _)
IsSubclass(k, base) ==
    IF k = base THEN TRUE
    ELSE IF k \in DOMAIN ExceptionParent THEN IsSubclass(ExceptionParent[k], base)
    ELSE FALSE

ERROR_MAP ==
    [code \in {"EGW00001", "EGW00002", "OPSP0001", "OPSP0010"} |->
        CASE code = "EGW00001" -> "AuthenticationError"
          [] code = "EGW00002" -> "TokenExpiredError"
          [] code = "OPSP0001" -> "InsufficientBalanceError"
          [] code = "OPSP0010" -> "MarketClosedError"]

\* raise_for_code without the table
RaiseForCode_AlwaysAPIError(code) == "APIError"

\* raise_for_code: the exception class raised for a vendor code
RaiseForCode(code) ==
    IF code \in DOMAIN ERROR_MAP THEN ERROR_MAP[code] ELSE "APIError"

\* msg_cd values of a response; "" when the key is absent
MsgCodes == DOMAIN ERROR_MAP \cup {"", "OPSQ9999"}

\* _handle_response without the rt_cd test
HandleResponse_NoResultCode(resp) ==
    IF resp.status = 429 THEN "RateLimitError"
    ELSE IF ~resp.json THEN "APIError"
    ELSE "none"

(***************************************************************************)
(* HTTPClient._handle_response: the exception raised for a response, or    *)
(* "none" when the parsed body is returned.                                *)
(***************************************************************************)
HandleResponse(resp) ==
    IF resp.status = 429 THEN "RateLimitError"
    ELSE IF ~resp.json THEN "APIError"
    ELSE IF resp.rt_cd # "0" THEN RaiseForCode(resp.msg_cd)
    ELSE "none"

(***************************************************************************)
(* Range aggregator: values                                                *)
(***************************************************************************)
Timeframes == {"1d", "1w"}

\* chunk_days taken from MAX_OHLCV_PER_REQUEST
ChunkDays_PerRequestCap(tf) == IF tf = "1d" THEN 100 ELSE 365

\* chunk_days
ChunkDays(tf) == IF tf = "1d" THEN 150 ELSE 365

\* (start_date, end_date, timeframe) arguments explored, as day numbers
RangeArgs ==
    [s : {40}, e : {39, 40, 190, 191, 339, 340, 342}, tf : {"1d"}] \cup
    [s : {40}, e : {405, 406}, tf : {"1w"}]

SeqsUpTo(S, n) == UNION {[1..k -> S] : k \in 0..n}

RECURSIVE TotalLen(_)
TotalLen(ss) == IF ss = <<>> THEN 0 ELSE Len(Head(ss)) + TotalLen(Tail(ss))

\* OHLCV.from_kis; timestamp is kept in seconds from day 0 (the code's
\* milliseconds are 1000 times this and do not fit the checker's integers)
FromKis(item) ==
    [dt |-> Strptime(item.date),
     timestamp |-> Strptime(item.date) * (24 * 3600),
     close |-> item.val]

\* a list append in place of the keyed assignment
DictSet_AlwaysAppend(d, key, value) == Append(d, [key |-> key, value |-> value])

\* all_data.setdefault(key, value): the first value is kept
DictSet_KeepFirst(d, key, value) ==
    IF \E i \in 1..Len(d) : d[i].key = key
    THEN d
    ELSE Append(d, [key |-> key, value |-> value])

\* all_data[key] = value on a dict kept as its (key, value) pairs in
\* insertion order
DictSet(d, key, value) ==
    IF \E i \in 1..Len(d) : d[i].key = key
    THEN [i \in 1..Len(d) |->
             IF d[i].key = key THEN [key |-> key, value |-> value] ELSE d[i]]
    ELSE Append(d, [key |-> key, value |-> value])

\* the test without its upper bound
InRange_NoUpperBound(dateStr, lo, hi) == dateStr # 0 /\ dateStr >= lo

\* the test guarding the insertion of an item
InRange(dateStr, lo, hi) == dateStr # 0 /\ dateStr >= lo /\ dateStr <= hi

\* the for loop over one window's items
RECURSIVE MergeItems(_, _, _, _)
MergeItems(d, items, lo, hi) ==
    IF items = <<>> THEN d
    ELSE MergeItems(
            IF InRange(Head(items).date, lo, hi)
            THEN DictSet(d, Head(items).date, FromKis(Head(items)))
            ELSE d,
            Tail(items), lo, hi)

\* sorted(seq, key=lambda x: x.datetime): stable, ascending
RECURSIVE InsertByDatetime(_, _)
InsertByDatetime(sorted, x) ==
    IF sorted = <<>> THEN <<x>>
    ELSE IF Head(sorted).dt <= x.dt
         THEN <<Head(sorted)>> \o InsertByDatetime(Tail(sorted), x)
         ELSE <<x>> \o sorted

RECURSIVE SortedByDatetime(_)
SortedByDatetime(seq) ==
    IF seq = <<>> THEN <<>>
    ELSE InsertByDatetime(SortedByDatetime(SubSeq(seq, 1, Len(seq) - 1)),
                          seq[Len(seq)])

DictValues(d) == [i \in 1..Len(d) |-> d[i].value]

StartDt == Strptime(startStr)
EndDt == Strptime(endStr)

\* current_start without the max() against start_dt
WindowStart_Unclamped(ce, tf) == ce - ChunkDays(tf)

\* current_start of the window ending at current_end
WindowStart(ce, tf) ==
    IF StartDt >= ce - ChunkDays(tf) THEN StartDt ELSE ce - ChunkDays(tf)

\* the anchor times of fetch_minute_ohlcv ("153000" ... "093000")
Times == <<153000, 140000, 120000, 100000, 93000>>

\* minute of the hour of a time string: int(time_str[2:4])
MinuteOf(timeStr) == (timeStr \div 100) % 100

\* the interval filter of fetch_minute_ohlcv
KeptByInterval(timeStr, iv) == ~(iv > 1 /\ MinuteOf(timeStr) % iv # 0)

\* the fields the OHLCV model requires, and the fields fetch_minute_ohlcv
\* passes to its constructor
OhlcvFields == {"timestamp", "datetime", "open", "high", "low", "close", "volume"}
MinuteCandleFields == {"datetime", "open", "high", "low", "close", "volume"}

\* OHLCV(**fields): pydantic validation rejects a missing required field
OhlcvInit(fields) == IF OhlcvFields \subseteq fields THEN "none" ELSE "ValidationError"

\* the for loop over one anchor's items: the exception raised by the first
\* item that has a date and a time and passes the interval filter, "none"
\* when every constructed candle is accepted
RECURSIVE MinuteMergeError(_, _)
MinuteMergeError(items, iv) ==
    IF items = <<>> THEN "none"
    ELSE IF /\ Head(items).date # 0
            /\ Head(items).time # 0
            /\ KeptByInterval(Head(items).time, iv)
            /\ OhlcvInit(MinuteCandleFields) # "none"
         THEN OhlcvInit(MinuteCandleFields)
         ELSE MinuteMergeError(Tail(items), iv)

RangeIdle ==
    /\ rpc = "idle"
    /\ op = "none"
    /\ startStr = 0
    /\ endStr = 0
    /\ timeframe = "1d"
    /\ interval = 1
    /\ anchor = 1
    /\ currentEnd = 0
    /\ currentStart = 0
    /\ allData = <<>>
    /\ requestCount = 0
    /\ windows = <<>>
    /\ responses = <<>>
    /\ sleeps = 0
    /\ result = <<>>
    /\ rerr = "none"
    /\ failedAt = 0
    /\ failCode = ""

(***************************************************************************)
(* fetch_ohlcv_range is called: the arguments are normalised and the walk  *)
(* starts at the end date.                                                 *)
(***************************************************************************)
FetchOhlcvRange(a) ==
    /\ rpc = "idle"
    /\ op' = "range"
    /\ startStr' = Strftime(a.s)
    /\ endStr' = Strftime(a.e)
    /\ timeframe' = a.tf
    /\ currentEnd' = Strptime(Strftime(a.e))
    /\ rpc' = "loop"
    /\ UNCHANGED <<isPaper, interval, anchor, currentStart, allData,
                   requestCount, windows, responses, sleeps, result, rerr,
                   failedAt, failCode>>

(***************************************************************************)
(* fetch_minute_ohlcv is called with an interval.                          *)
(***************************************************************************)
FetchMinuteOhlcv(iv) ==
    /\ rpc = "idle"
    /\ op' = "minute"
    /\ interval' = iv
    /\ anchor' = 1
    /\ rpc' = "loop"
    /\ UNCHANGED <<isPaper, startStr, endStr, timeframe, currentEnd,
                   currentStart, allData, requestCount, windows, responses,
                   sleeps, result, rerr, failedAt, failCode>>

\* the methods class QuoteAPI defines
QuoteMethods ==
    {"fetch_ticker", "fetch_order_book", "fetch_ohlcv", "fetch_ohlcv_range",
     "fetch_minute_ohlcv"}

\* attribute lookup of a method on an object of a class with these methods
GetAttr(methods, name) == IF name \in methods THEN "none" ELSE "AttributeError"

(***************************************************************************)
(* KIS.fetch_minute_ohlcv_range is called: it delegates to                 *)
(* self._quote.fetch_minute_ohlcv_range, which QuoteAPI does not define;   *)
(* the attribute lookup raises before is_paper is looked at.               *)
(***************************************************************************)
KisFetchMinuteOhlcvRange ==
    /\ rpc = "idle"
    /\ GetAttr(QuoteMethods, "fetch_minute_ohlcv_range") # "none"
    /\ op' = "minute_range"
    /\ rerr' = GetAttr(QuoteMethods, "fetch_minute_ohlcv_range")
    /\ rpc' = "raised"
    /\ UNCHANGED <<isPaper, startStr, endStr, timeframe, interval, anchor,
                   currentEnd, currentStart, allData, requestCount, windows,
                   responses, sleeps, result, failedAt, failCode>>

\* the while test of fetch_ohlcv_range without its start boundary
MoreWindows_UntilEpoch ==
    \/ op = "range" /\ currentEnd >= 0
    \/ op = "minute" /\ anchor <= Len(Times)

\* another window is to be requested
MoreWindows ==
    \/ op = "range" /\ currentEnd >= StartDt
    \/ op = "minute" /\ anchor <= Len(Times)

(***************************************************************************)
(* The while test holds: the window is computed and HTTPClient.get issues  *)
(* the request with the headers of the Auth Manager.                       *)
(***************************************************************************)
WindowRequest ==
    /\ rpc = "loop"
    /\ op = "range"
    /\ MoreWindows
    /\ currentStart' = WindowStart(currentEnd, timeframe)
    /\ windows' = Append(windows,
                    [d1 |-> Strftime(WindowStart(currentEnd, timeframe)),
                     d2 |-> Strftime(currentEnd)])
    /\ rpc' = "awaiting"
    /\ UNCHANGED <<isPaper, op, startStr, endStr, timeframe, interval, anchor,
                   currentEnd, allData, requestCount, responses, sleeps,
                   result, rerr, failedAt, failCode>>

(***************************************************************************)
(* fetch_minute_ohlcv: the request for the next anchor time is issued.     *)
(***************************************************************************)
MinuteRequest ==
    /\ rpc = "loop"
    /\ op = "minute"
    /\ MoreWindows
    /\ windows' = Append(windows, [d1 |-> 0, d2 |-> Times[anchor]])
    /\ rpc' = "awaiting"
    /\ UNCHANGED <<isPaper, op, startStr, endStr, timeframe, interval, anchor,
                   currentEnd, currentStart, allData, requestCount, responses,
                   sleeps, result, rerr, failedAt, failCode>>

(***************************************************************************)
(* A window is due but auth.get_headers() raises inside HTTPClient.get: no *)
(* request is issued and the pass ends.                                    *)
(***************************************************************************)
WindowAuthFail ==
    /\ rpc = "loop"
    /\ MoreWindows
    /\ rpc' = "raised"
    /\ rerr' = "AuthenticationError"
    /\ UNCHANGED <<isPaper, op, startStr, endStr, timeframe, interval, anchor,
                   currentEnd, currentStart, allData, requestCount, windows,
                   responses, sleeps, result, failedAt, failCode>>

\* dates the vendor may put on the items of a window's response
ItemDates ==
    {0, Strftime(StartDt - 1), startStr, endStr, Strftime(EndDt + 1),
     Strftime(currentStart)}

\* the items a response may carry: stck_bsop_date, stck_cntg_hour (0 when
\* absent, as on daily items) and a price
Items ==
    IF op = "range"
    THEN [date : ItemDates, time : {0}, val : {1, 2}]
    ELSE [date : {Strftime(40)}, time : {0, 90000, 90100, 90500}, val : {1, 2}]

\* responses to a window request
Responses ==
    [status : {429}, json : {TRUE}, rt_cd : {"0"}, msg_cd : {""}, output2 : {<<>>}]
    \cup
    [status : {200}, json : {FALSE}, rt_cd : {"0"}, msg_cd : {""}, output2 : {<<>>}]
    \cup
    [status : {200}, json : {TRUE}, rt_cd : {"1"}, msg_cd : MsgCodes, output2 : {<<>>}]
    \cup
    [status : {200}, json : {TRUE}, rt_cd : {"0"}, msg_cd : {""},
     output2 : SeqsUpTo(Items, MaxItems - TotalLen(responses))]

\* the vendor flagged the request as failed in the body of the response
IsVendorFailure(resp) == resp.status # 429 /\ resp.json /\ resp.rt_cd # "0"

(***************************************************************************)
(* A response arrives that _handle_response rejects: the exception leaves  *)
(* the pass.                                                               *)
(***************************************************************************)
WindowFails ==
    /\ rpc = "awaiting"
    /\ \E resp \in Responses :
          /\ HandleResponse(resp) # "none"
          /\ rerr' = HandleResponse(resp)
          /\ failedAt' = IF IsVendorFailure(resp) THEN Len(windows) ELSE failedAt
          /\ failCode' = IF IsVendorFailure(resp) THEN resp.msg_cd ELSE failCode
    /\ rpc' = "raised"
    /\ UNCHANGED <<isPaper, op, startStr, endStr, timeframe, interval, anchor,
                   currentEnd, currentStart, allData, requestCount, windows,
                   responses, sleeps, result>>

(***************************************************************************)
(* fetch_ohlcv_range: a response arrives that _handle_response returns:    *)
(* the items in range are merged, the walk moves to the day before the     *)
(* window, and the rate-limit sleep follows when another window remains.   *)
(***************************************************************************)
WindowMerged ==
    /\ rpc = "awaiting"
    /\ op = "range"
    /\ \E resp \in Responses :
          /\ HandleResponse(resp) = "none"
          /\ allData' = MergeItems(allData, resp.output2, startStr, endStr)
          /\ responses' = Append(responses, resp.output2)
          /\ failedAt' = IF IsVendorFailure(resp) THEN Len(windows) ELSE failedAt
          /\ failCode' = IF IsVendorFailure(resp) THEN resp.msg_cd ELSE failCode
    /\ currentEnd' = currentStart - 1
    /\ requestCount' = requestCount + 1
    /\ rpc' = IF currentStart - 1 >= StartDt THEN "sleeping" ELSE "loop"
    /\ UNCHANGED <<isPaper, op, startStr, endStr, timeframe, interval, anchor,
                   currentStart, windows, sleeps, result, rerr>>

(***************************************************************************)
(* fetch_minute_ohlcv: a response arrives that _handle_response returns.   *)
(* The first item kept by the filter is given to the OHLCV constructor     *)
(* without a timestamp, which raises before all_data is assigned; with no  *)
(* item kept the rate-limit sleep follows.                                 *)
(***************************************************************************)
MinuteMerged ==
    /\ rpc = "awaiting"
    /\ op = "minute"
    /\ \E resp \in Responses :
          /\ HandleResponse(resp) = "none"
          /\ responses' = Append(responses, resp.output2)
          /\ failedAt' = IF IsVendorFailure(resp) THEN Len(windows) ELSE failedAt
          /\ failCode' = IF IsVendorFailure(resp) THEN resp.msg_cd ELSE failCode
          /\ IF MinuteMergeError(resp.output2, interval) # "none"
             THEN /\ rerr' = MinuteMergeError(resp.output2, interval)
                  /\ rpc' = "raised"
             ELSE /\ rpc' = "sleeping"
                  /\ UNCHANGED rerr
    /\ UNCHANGED <<isPaper, op, startStr, endStr, timeframe, interval, anchor,
                   currentEnd, currentStart, allData, requestCount, windows,
                   sleeps, result>>

\* the wait between two windows left out
RateLimitSleep_Skipped ==
    /\ rpc = "sleeping"
    /\ anchor' = IF op = "minute" THEN anchor + 1 ELSE anchor
    /\ rpc' = "loop"
    /\ UNCHANGED <<isPaper, op, startStr, endStr, timeframe, interval, currentEnd,
                   currentStart, allData, requestCount, windows, responses,
                   sleeps, result, rerr, failedAt, failCode>>

(***************************************************************************)
(* time.sleep(self._delay): between two windows of fetch_ohlcv_range,      *)
(* after every anchor of fetch_minute_ohlcv.                               *)
(***************************************************************************)
RateLimitSleep ==
    /\ rpc = "sleeping"
    /\ sleeps' = sleeps + 1
    /\ anchor' = IF op = "minute" THEN anchor + 1 ELSE anchor
    /\ rpc' = "loop"
    /\ UNCHANGED <<isPaper, op, startStr, endStr, timeframe, interval, currentEnd,
                   currentStart, allData, requestCount, windows, responses,
                   result, rerr, failedAt, failCode>>

(***************************************************************************)
(* No window remains: the values are sorted by datetime and returned.      *)
(***************************************************************************)
RangeReturn ==
    /\ rpc = "loop"
    /\ op # "none"
    /\ ~MoreWindows
    /\ result' = SortedByDatetime(DictValues(allData))
    /\ rpc' = "done"
    /\ UNCHANGED <<isPaper, op, startStr, endStr, timeframe, interval, anchor,
                   currentEnd, currentStart, allData, requestCount, windows,
                   responses, sleeps, rerr, failedAt, failCode>>

(***************************************************************************)
(* Streaming feed: values                                                  *)
(***************************************************************************)
TR_ID_TICKER == "H0STCNT0"
TR_ID_ORDERBOOK == "H0STASP0"

Symbols == {"005930", "000660"}

\* the watch_ticker generators and the symbol each was called with
Watchers == {1, 2}
WatchSymbol(w) == IF w = 1 THEN "005930" ELSE "000660"

\* A text frame.  A control frame is the JSON text of an acknowledgment; a
\* data frame is a pipe-separated envelope whose fourth part is the payload,
\* caret-separated, with the symbol in field 0.  shape tells how it is built:
\*   "ok"          four parts, twenty or more fields, numeric fields
\*   "few_parts"   fewer than four pipe-separated parts
\*   "few_fields"  fewer than twenty caret-separated fields
\*   "not_numeric" a parsed field that float() / int() rejects
\* sign is field 3 (the side-indicator code), change field 4 and pct field 5
\* (the change in won and the change rate in hundredths of a percent).
Shapes == {"ok", "few_parts", "few_fields", "not_numeric"}

DataFrames ==
    [ctl : {FALSE}, trId : {TR_ID_TICKER, TR_ID_ORDERBOOK}, sym : Symbols,
     shape : Shapes, sign : {"5"}, change : {3}, pct : {1}]

ControlFrame ==
    [ctl |-> TRUE, trId |-> TR_ID_TICKER, sym |-> "005930", shape |-> "ok",
     sign |-> "3", change |-> 0, pct |-> 0]

NoTicker == [symbol |-> "None", change |-> 0, change_percent |-> 0]

\* abs()
Abs(x) == IF x < 0 THEN -x ELSE x

\* the side-indicator codes of a fall
FallCodes == {"4", "5"}

\* _parse_ticker_message that lets a frame with a non-numeric field through
ParseTickerMessage_NoNumericCheck(message, symbol) ==
    IF message.ctl THEN NoTicker
    ELSE IF message.shape = "few_parts" THEN NoTicker
    ELSE IF message.shape = "few_fields" THEN NoTicker
    ELSE [symbol |-> symbol, change |-> message.change,
          change_percent |-> message.pct]

\* _parse_ticker_message(message, symbol): the Ticker built, or NoTicker for
\* None; the symbol of the Ticker is the argument, and change and
\* change_percent are made negative under a fall code
ParseTickerMessage(message, symbol) ==
    IF message.ctl THEN NoTicker
    ELSE IF message.shape = "few_parts" THEN NoTicker
    ELSE IF message.shape = "few_fields" THEN NoTicker
    ELSE IF message.shape = "not_numeric" THEN NoTicker
    ELSE [symbol |-> symbol,
          change |-> IF message.sign \in FallCodes
                     THEN -Abs(message.change) ELSE message.change,
          change_percent |-> IF message.sign \in FallCodes
                             THEN -Abs(message.pct) ELSE message.pct]

WsConstructed ==
    /\ ws = 0
    /\ approvalKey = FALSE
    /\ sockOpen = <<>>
    /\ inbound = <<>>
    /\ sentMsgs = {}
    /\ nframes = 0
    /\ wpc = [w \in Watchers |-> "idle"]
    /\ wsock = [w \in Watchers |-> 0]
    /\ yielded = [w \in Watchers |-> <<>>]
    /\ werr = [w \in Watchers |-> "none"]
    /\ taken = [w \in Watchers |-> <<>>]
    /\ connects = 0
    /\ dropped = {}

(***************************************************************************)
(* connect(): the approval key is fetched and a socket is opened and held. *)
(***************************************************************************)
Connect ==
    /\ connects < MaxConnects
    /\ connects' = connects + 1
    /\ approvalKey' = TRUE
    /\ sockOpen' = Append(sockOpen, TRUE)
    /\ inbound' = Append(inbound, <<>>)
    /\ ws' = Len(sockOpen) + 1
    /\ UNCHANGED <<sentMsgs, nframes, wpc, wsock, yielded, werr, taken, dropped>>

(***************************************************************************)
(* connect() fails: the approval-key request raises (nothing changes) or   *)
(* websockets.connect raises after the key was stored.                     *)
(***************************************************************************)
ConnectFails ==
    /\ connects < MaxConnects
    /\ connects' = connects + 1
    /\ \E keyFetched \in BOOLEAN : approvalKey' = (approvalKey \/ keyFetched)
    /\ UNCHANGED <<ws, sockOpen, inbound, sentMsgs, nframes, wpc, wsock, yielded,
                   werr, taken, dropped>>

(***************************************************************************)
(* disconnect(): the held socket is closed and dropped.                    *)
(***************************************************************************)
Disconnect ==
    /\ IF ws # 0
       THEN /\ sockOpen' = [sockOpen EXCEPT ![ws] = FALSE]
            /\ ws' = 0
       ELSE UNCHANGED <<sockOpen, ws>>
    /\ UNCHANGED <<approvalKey, inbound, sentMsgs, nframes, wpc, wsock, yielded,
                   werr, taken, connects, dropped>>

(***************************************************************************)
(* The vendor or the network closes an open socket; the client still holds *)
(* the socket object in _ws.                                               *)
(***************************************************************************)
Drop ==
    /\ \E k \in 1..Len(sockOpen) :
          /\ sockOpen[k]
          /\ sockOpen' = [sockOpen EXCEPT ![k] = FALSE]
          /\ dropped' = dropped \cup {k}
    /\ UNCHANGED <<ws, approvalKey, inbound, sentMsgs, nframes, wpc, wsock,
                   yielded, werr, taken, connects>>

\* watch_ticker without the test of self._ws
WatchTicker_NoSocketTest(w) ==
    /\ wpc[w] = "idle"
    /\ sentMsgs' = sentMsgs \cup
          {[sock |-> ws, tr_id |-> TR_ID_TICKER, tr_key |-> WatchSymbol(w)]}
    /\ wsock' = [wsock EXCEPT ![w] = ws]
    /\ wpc' = [wpc EXCEPT ![w] = IF ws = 0 THEN "raised" ELSE "streaming"]
    /\ werr' = [werr EXCEPT ![w] = IF ws = 0 THEN "AttributeError" ELSE "none"]
    /\ UNCHANGED <<ws, approvalKey, sockOpen, inbound, nframes, yielded, taken,
                   connects, dropped>>

(***************************************************************************)
(* watch_ticker(symbol) is started: RuntimeError without a socket; else    *)
(* _subscribe sends the subscription message (send raises ConnectionClosed *)
(* on a socket that is no longer open) and the generator iterates over the *)
(* socket.                                                                 *)
(***************************************************************************)
WatchTicker(w) ==
    /\ wpc[w] = "idle"
    /\ IF ws = 0
       THEN /\ wpc' = [wpc EXCEPT ![w] = "raised"]
            /\ werr' = [werr EXCEPT ![w] = "RuntimeError"]
            /\ UNCHANGED <<sentMsgs, wsock>>
       ELSE IF ~sockOpen[ws]
       THEN /\ wpc' = [wpc EXCEPT ![w] = "raised"]
            /\ werr' = [werr EXCEPT ![w] = "ConnectionClosed"]
            /\ UNCHANGED <<sentMsgs, wsock>>
       ELSE /\ sentMsgs' = sentMsgs \cup
                  {[sock |-> ws, tr_id |-> TR_ID_TICKER, tr_key |-> WatchSymbol(w)]}
            /\ wsock' = [wsock EXCEPT ![w] = ws]
            /\ wpc' = [wpc EXCEPT ![w] = "streaming"]
            /\ UNCHANGED werr
    /\ UNCHANGED <<ws, approvalKey, sockOpen, inbound, nframes, yielded, taken,
                   connects, dropped>>

(***************************************************************************)
(* The vendor sends a frame on an open socket: a control frame, or a data  *)
(* frame of a subscription registered on that socket.                      *)
(***************************************************************************)
VendorFrame ==
    /\ nframes < MaxFrames
    /\ \E k \in 1..Len(sockOpen), f \in DataFrames \cup {ControlFrame} :
          /\ sockOpen[k]
          /\ f.ctl \/ [sock |-> k, tr_id |-> f.trId, tr_key |-> f.sym] \in sentMsgs
          /\ inbound' = [inbound EXCEPT ![k] = Append(@, f)]
    /\ nframes' = nframes + 1
    /\ UNCHANGED <<ws, approvalKey, sockOpen, sentMsgs, wpc, wsock, yielded,
                   werr, taken, connects, dropped>>

(***************************************************************************)
(* One turn of "async for message in self._ws" in generator w: the next    *)
(* frame of the socket is parsed with the generator's symbol and the       *)
(* Ticker, if any, is yielded; on None the loop goes on to the next frame. *)
(***************************************************************************)
Receive(w) ==
    /\ wpc[w] = "streaming"
    /\ inbound[wsock[w]] # <<>>
    /\ LET message == Head(inbound[wsock[w]])
           ticker == ParseTickerMessage(message, WatchSymbol(w))
       IN /\ yielded' = IF ticker # NoTicker
                        THEN [yielded EXCEPT ![w] =
                                 Append(@, [ticker |-> ticker, frame |-> message])]
                        ELSE yielded
          /\ taken' = [taken EXCEPT ![w] = Append(@, message)]
    /\ inbound' = [inbound EXCEPT ![wsock[w]] = Tail(@)]
    /\ UNCHANGED <<ws, approvalKey, sockOpen, sentMsgs, nframes, wpc, wsock,
                   werr, connects, dropped>>

(***************************************************************************)
(* "async for message in self._ws" ends in generator w: its socket is      *)
(* closed and every frame received on it has been taken.  After            *)
(* disconnect() the iteration stops; after a drop it stops or raises       *)
(* ConnectionClosedError, as the closing handshake went.                   *)
(***************************************************************************)
StreamEnds(w) ==
    /\ wpc[w] = "streaming"
    /\ ~sockOpen[wsock[w]]
    /\ inbound[wsock[w]] = <<>>
    /\ \E abnormal \in BOOLEAN :
          IF abnormal /\ wsock[w] \in dropped
          THEN /\ wpc' = [wpc EXCEPT ![w] = "raised"]
               /\ werr' = [werr EXCEPT ![w] = "ConnectionClosedError"]
          ELSE /\ wpc' = [wpc EXCEPT ![w] = "ended"]
               /\ UNCHANGED werr
    /\ UNCHANGED <<ws, approvalKey, sockOpen, inbound, sentMsgs, nframes, wsock,
                   yielded, taken, connects, dropped>>


(***************************************************************************)
(* The two execution modes: KIS over HTTPClient, AsyncKIS over             *)
(* AsyncHTTPClient.  An operation is called on a client of each mode and   *)
(* the request it makes is answered with the same vendor response.         *)
(***************************************************************************)
Modes == {"sync", "async"}

\* the public methods of class KIS / class AsyncKIS (close apart)
KisMethods ==
    {"fetch_ticker", "fetch_order_book", "fetch_ohlcv", "fetch_ohlcv_range",
     "fetch_minute_ohlcv", "fetch_minute_ohlcv_range", "create_limit_order",
     "create_market_order", "cancel_order", "fetch_open_orders",
     "fetch_balance"}

AsyncKisMethods ==
    {"fetch_ticker", "fetch_order_book", "fetch_ohlcv", "create_limit_order",
     "create_market_order", "cancel_order", "fetch_open_orders",
     "fetch_balance", "watch_ticker", "watch_order_book"}

Operations == KisMethods \cup AsyncKisMethods

\* the methods of the API classes the clients delegate to
AsyncQuoteMethods == {"fetch_ticker", "fetch_order_book", "fetch_ohlcv"}

OrderMethods == {"create_order", "cancel_order", "fetch_open_orders"}

AsyncOrderMethods == {"create_order", "cancel_order", "fetch_open_orders"}

AccountMethods == {"fetch_balance"}

AsyncAccountMethods == {"fetch_balance"}

\* the API method a client method delegates to
Delegate(o) ==
    IF o \in {"create_limit_order", "create_market_order"} THEN "create_order"
    ELSE o

\* the methods of the API object a client method of KIS / AsyncKIS calls
ApiOf(o) ==
    IF o \in {"create_limit_order", "create_market_order", "cancel_order",
              "fetch_open_orders"} THEN OrderMethods
    ELSE IF o = "fetch_balance" THEN AccountMethods
    ELSE QuoteMethods

AsyncApiOf(o) ==
    IF o \in {"create_limit_order", "create_market_order", "cancel_order",
              "fetch_open_orders"} THEN AsyncOrderMethods
    ELSE IF o = "fetch_balance" THEN AsyncAccountMethods
    ELSE AsyncQuoteMethods

\* AsyncHTTPClient._handle_response
AsyncHandleResponse(resp) ==
    IF resp.status = 429 THEN "RateLimitError"
    ELSE IF ~resp.json THEN "APIError"
    ELSE IF resp.rt_cd # "0" THEN RaiseForCode(resp.msg_cd)
    ELSE "none"

\* responses of the vendor to one request; rt_cd "" stands for an absent key
TransportResponses ==
    [status : {200, 429, 500}, json : BOOLEAN, rt_cd : {"0", "1", ""},
     msg_cd : MsgCodes, output2 : {<<>>}]

NoResponse ==
    [status |-> 0, json |-> FALSE, rt_cd |-> "", msg_cd |-> "", output2 |-> <<>>]

\* KIS.<o>(...) answered with r: the lookup of the method on the client and
\* on the API object, then the Transport's verdict on the response
SyncCall(o, r) ==
    IF GetAttr(KisMethods, o) # "none" THEN GetAttr(KisMethods, o)
    ELSE IF GetAttr(ApiOf(o), Delegate(o)) # "none"
         THEN GetAttr(ApiOf(o), Delegate(o))
    ELSE HandleResponse(r)

\* AsyncKIS.<o>(...) answered with r; the watch methods make no REST request
\* and return their generator
AsyncCall(o, r) ==
    IF GetAttr(AsyncKisMethods, o) # "none" THEN GetAttr(AsyncKisMethods, o)
    ELSE IF o \in {"watch_ticker", "watch_order_book"} THEN "none"
    ELSE IF GetAttr(AsyncApiOf(o), Delegate(o)) # "none"
         THEN GetAttr(AsyncApiOf(o), Delegate(o))
    ELSE AsyncHandleResponse(r)

ModesIdle ==
    /\ mOp = "none"
    /\ mResp = NoResponse
    /\ mOut = [m \in Modes |-> "idle"]

\* the operation is called on the synchronous client
KisCall(o, r) ==
    /\ mOut["sync"] = "idle"
    /\ mOp = "none" \/ (mOp = o /\ mResp = r)
    /\ mOp' = o
    /\ mResp' = r
    /\ mOut' = [mOut EXCEPT !["sync"] = SyncCall(o, r)]

\* the operation is called on the asynchronous client
AsyncKisCall(o, r) ==
    /\ mOut["async"] = "idle"
    /\ mOp = "none" \/ (mOp = o /\ mResp = r)
    /\ mOp' = o
    /\ mResp' = r
    /\ mOut' = [mOut EXCEPT !["async"] = AsyncCall(o, r)]

(***************************************************************************)
(* Ticker decoding: the streamed frame (_parse_ticker_message) and the     *)
(* REST response of fetch_ticker (Ticker.from_kis) for the same raw fields *)
(***************************************************************************)
\* prdy_vrss_sign / field 3, prdy_vrss / field 4, prdy_ctrt / field 5
RawQuotes == [sign : {"1", "2", "3", "4", "5"}, change : {-3, 0, 3}, pct : {-2, 0, 2}]

\* Ticker.from_kis with the sign applied to the change only
TickerFromKis_ChangeOnly(output, symbol) ==
    [symbol |-> symbol,
     change |-> IF output.sign \in {"4", "5"}
                THEN -Abs(output.change) ELSE output.change,
     change_percent |-> output.pct]

\* Ticker.from_kis(data, symbol), output being data["output"]
TickerFromKis(output, symbol) ==
    [symbol |-> symbol,
     change |-> IF output.sign \in {"4", "5"}
                THEN -Abs(output.change) ELSE output.change,
     change_percent |-> IF output.sign \in {"4", "5"}
                        THEN -Abs(output.pct) ELSE output.pct]

\* the ticker data frame carrying raw fields q for a symbol
TickerFrame(q, symbol) ==
    [ctl |-> FALSE, trId |-> TR_ID_TICKER, sym |-> symbol, shape |-> "ok",
     sign |-> q.sign, change |-> q.change, pct |-> q.pct]

DecoderIdle ==
    /\ quote \in RawQuotes
    /\ decoded = NoTicker
    /\ decoder = "none"

DecoderQuiet ==
    /\ quote = [sign |-> "3", change |-> 0, pct |-> 0]
    /\ decoded = NoTicker
    /\ decoder = "none"

\* a watch_ticker sequence decodes the frame of the quote
StreamDecode ==
    /\ decoder = "none"
    /\ decoded' = ParseTickerMessage(TickerFrame(quote, "005930"), "005930")
    /\ decoder' = "stream"
    /\ UNCHANGED quote

\* fetch_ticker decodes the response of the quote
RestDecode ==
    /\ decoder = "none"
    /\ decoded' = TickerFromKis(quote, "005930")
    /\ decoder' = "rest"
    /\ UNCHANGED quote

(***************************************************************************)
(* fetch_ohlcv: one request for the latest candles, on either client       *)
(***************************************************************************)
\* an empty dict among the items
EmptyItem == [date |-> 0, time |-> 0, val |-> 0]

\* candles of the vendor, one per trading day
Candles == [date : {Strftime(40), Strftime(41), Strftime(42)}, time : {0}, val : {1}]

\* a value of the body: a list, a dict, or None for a key that is absent
AbsentValue == [kind |-> "absent", items |-> <<>>]
DictValue == [kind |-> "dict", items |-> <<>>]
ListValues == [kind : {"list"}, items : SeqsUpTo(Candles \cup {EmptyItem}, MaxItems)]

\* the bodies of a successful daily-price response
OhlcvBodies ==
    [output2 : ListValues, output : {AbsentValue}] \cup
    [output2 : {AbsentValue}, output : ListValues] \cup
    [output2 : {DictValue}, output : {AbsentValue}]

\* limit: None, or an integer
NoLimit == [given |-> FALSE, k |-> 0]
Limits == {NoLimit} \cup [given : {TRUE}, k : 0..(MaxItems + 1)]

\* truth value of a body value: a non-empty list or a (non-empty) dict
Truthy(v) == v.kind = "dict" \/ (v.kind = "list" /\ v.items # <<>>)

\* truth value of the limit argument
LimitTruthy(l) == l.given /\ l.k # 0

\* data.get("output2") or data.get("output") or [], then a dict gives []
ItemsOf(data) ==
    LET picked == IF Truthy(data.output2) THEN data.output2
                  ELSE IF Truthy(data.output) THEN data.output
                  ELSE [kind |-> "list", items |-> <<>>]
    IN IF picked.kind = "dict" THEN <<>> ELSE picked.items

\* [OHLCV.from_kis(item) for item in items if item]
RECURSIVE ParseItems(_)
ParseItems(items) ==
    IF items = <<>> THEN <<>>
    ELSE IF Head(items) = EmptyItem THEN ParseItems(Tail(items))
    ELSE <<FromKis(Head(items))>> \o ParseItems(Tail(items))

\* ohlcv_list[:k] for k >= 0
Prefix(list, k) == SubSeq(list, 1, IF k < Len(list) THEN k ELSE Len(list))

\* list(reversed(list))
Reversed(list) == [i \in 1..Len(list) |-> list[Len(list) + 1 - i]]

\* QuoteAPI.fetch_ohlcv, from the body to the returned list
FetchOhlcvResult(data, limit) ==
    LET ohlcv_list == ParseItems(ItemsOf(data))
    IN Reversed(IF LimitTruthy(limit) THEN Prefix(ohlcv_list, limit.k)
                ELSE ohlcv_list)

\* AsyncQuoteAPI.fetch_ohlcv, from the body to the returned list
AsyncFetchOhlcvResult(data, limit) ==
    LET items == ItemsOf(data)
        ohlcv_list == ParseItems(items)
        cut == IF LimitTruthy(limit) THEN Prefix(ohlcv_list, limit.k)
               ELSE ohlcv_list
    IN Reversed(cut)

OhlcvIdle ==
    /\ fData \in OhlcvBodies
    /\ fLimit \in Limits
    /\ fOut = [m \in Modes |-> <<>>]
    /\ fDone = [m \in Modes |-> FALSE]

OhlcvQuiet ==
    /\ fData = [output2 |-> AbsentValue, output |-> AbsentValue]
    /\ fLimit = NoLimit
    /\ fOut = [m \in Modes |-> <<>>]
    /\ fDone = [m \in Modes |-> FALSE]

\* kis.fetch_ohlcv(symbol, timeframe, limit) on the synchronous client
FetchOhlcv ==
    /\ ~fDone["sync"]
    /\ fOut' = [fOut EXCEPT !["sync"] = FetchOhlcvResult(fData, fLimit)]
    /\ fDone' = [fDone EXCEPT !["sync"] = TRUE]
    /\ UNCHANGED <<fData, fLimit>>

\* await kis.fetch_ohlcv(symbol, timeframe, limit) on the asynchronous client
AsyncFetchOhlcv ==
    /\ ~fDone["async"]
    /\ fOut' = [fOut EXCEPT !["async"] = AsyncFetchOhlcvResult(fData, fLimit)]
    /\ fDone' = [fDone EXCEPT !["async"] = TRUE]
    /\ UNCHANGED <<fData, fLimit>>

(***************************************************************************)
(* AsyncKIS: the async with block, the lazily created httpx client and the *)
(* lazily created WebSocketClient.  The WebSocketClient it holds is the    *)
(* one of the streaming feed above; watch_ticker call t runs generator t.  *)
(***************************************************************************)
KisEntered ==
    /\ kpc = "inside"
    /\ kExit = "none"
    /\ kHttp = FALSE
    /\ httpOpened = 0
    /\ httpAclosed = 0
    /\ httpCloseCalls = 0
    /\ kWs = FALSE
    /\ wsCreated = 0
    /\ wsDisconnects = 0
    /\ tpc = [t \in Watchers |-> "idle"]
    /\ handed = [t \in Watchers |-> "none"]

\* a REST operation in the block: _get_client creates the httpx client on
\* first use
KisRequest ==
    /\ kpc = "inside"
    /\ kHttp' = TRUE
    /\ httpOpened' = IF kHttp THEN httpOpened ELSE httpOpened + 1
    /\ UNCHANGED <<kpc, kExit, httpAclosed, httpCloseCalls, kWs, wsCreated,
                   wsDisconnects, tpc, handed>>
    /\ UNCHANGED wsVars

(***************************************************************************)
(* watch_ticker call t enters _ensure_ws_connected.  With no client held a *)
(* WebSocketClient is created and assigned to _ws, and the call waits for  *)
(* connect(); with a client held that client is returned at once.          *)
(***************************************************************************)
EnsureWsConnected(t) ==
    /\ kpc = "inside"
    /\ tpc[t] = "idle"
    /\ IF ~kWs
       THEN /\ kWs' = TRUE
            /\ wsCreated' = wsCreated + 1
            /\ tpc' = [tpc EXCEPT ![t] = "connecting"]
            /\ UNCHANGED handed
       ELSE /\ tpc' = [tpc EXCEPT ![t] = "ensured"]
            /\ handed' = [handed EXCEPT ![t] =
                             IF ws # 0 THEN "connected" ELSE "unconnected"]
            /\ UNCHANGED <<kWs, wsCreated>>
    /\ UNCHANGED <<kpc, kExit, kHttp, httpOpened, httpAclosed, httpCloseCalls,
                   wsDisconnects>>
    /\ UNCHANGED wsVars

\* the connect() awaited by call t completes and the client is returned
EnsureConnected(t) ==
    /\ tpc[t] = "connecting"
    /\ Connect
    /\ tpc' = [tpc EXCEPT ![t] = "ensured"]
    /\ handed' = [handed EXCEPT ![t] = "connected"]
    /\ UNCHANGED <<kpc, kExit, kHttp, httpOpened, httpAclosed, httpCloseCalls,
                   kWs, wsCreated, wsDisconnects>>

\* the connect() awaited by call t raises: the exception leaves
\* watch_ticker and _ws keeps the client
EnsureConnectFails(t) ==
    /\ tpc[t] = "connecting"
    /\ ConnectFails
    /\ tpc' = [tpc EXCEPT ![t] = "failed"]
    /\ UNCHANGED <<kpc, kExit, kHttp, httpOpened, httpAclosed, httpCloseCalls,
                   kWs, wsCreated, wsDisconnects, handed>>

\* call t iterates over ws.watch_ticker(symbol) of the client it was handed
KisWatchTicker(t) ==
    /\ tpc[t] = "ensured"
    /\ WatchTicker(t)
    /\ tpc' = [tpc EXCEPT ![t] = "watching"]
    /\ UNCHANGED <<kpc, kExit, kHttp, httpOpened, httpAclosed, httpCloseCalls,
                   kWs, wsCreated, wsDisconnects, handed>>

\* a generator that closes its socket when its consumer leaves the loop
StopIterating_ClosesSocket(w) ==
    /\ wpc[w] = "streaming"
    /\ wpc' = [wpc EXCEPT ![w] = "stopped"]
    /\ sockOpen' = [sockOpen EXCEPT ![wsock[w]] = FALSE]
    /\ UNCHANGED <<ws, approvalKey, inbound, sentMsgs, nframes, wsock,
                   yielded, werr, taken, connects, dropped>>

\* the consumer of sequence w leaves its async for loop: the generator is
\* closed at its yield, where no handler, finally or with block is open
StopIterating(w) ==
    /\ wpc[w] = "streaming"
    /\ wpc' = [wpc EXCEPT ![w] = "stopped"]
    /\ UNCHANGED <<ws, approvalKey, sockOpen, inbound, sentMsgs, nframes, wsock,
                   yielded, werr, taken, connects, dropped>>

(***************************************************************************)
(* The block is left, normally or by an exception: __aexit__ awaits        *)
(* close(), which first awaits AsyncHTTPClient.close().                    *)
(***************************************************************************)
AExit(how) ==
    /\ kpc = "inside"
    /\ kExit' = how
    /\ httpCloseCalls' = httpCloseCalls + 1
    /\ httpAclosed' = IF kHttp THEN httpAclosed + 1 ELSE httpAclosed
    /\ kHttp' = FALSE
    /\ kpc' = "closing"
    /\ UNCHANGED <<httpOpened, kWs, wsCreated, wsDisconnects, tpc, handed>>
    /\ UNCHANGED wsVars

\* close() without the disconnect() of the client it drops
CloseWs_NoDisconnect ==
    /\ kpc = "closing"
    /\ kWs' = FALSE
    /\ kpc' = "left"
    /\ UNCHANGED <<kExit, kHttp, httpOpened, httpAclosed, httpCloseCalls,
                   wsCreated, wsDisconnects, tpc, handed>>
    /\ UNCHANGED wsVars

\* close() goes on: a client held in _ws is disconnected and dropped
CloseWs ==
    /\ kpc = "closing"
    /\ IF kWs
       THEN /\ Disconnect
            /\ wsDisconnects' = wsDisconnects + 1
       ELSE UNCHANGED <<wsVars, wsDisconnects>>
    /\ kWs' = FALSE
    /\ kpc' = "left"
    /\ UNCHANGED <<kExit, kHttp, httpOpened, httpAclosed, httpCloseCalls,
                   wsCreated, tpc, handed>>

(***************************************************************************)
(* Transport: one get or post call of HTTPClient ("sync") and of           *)
(* AsyncHTTPClient ("async")                                               *)
(***************************************************************************)
Verbs == {"GET", "POST"}
TrIds == {"FHKST01010100", "TTTC0802U"}

\* the dicts get_headers() returns
AuthHeaders ==
    [authorization : {"Bearer tokA", "Bearer tokB"}, appkey : {"app_key"},
     appsecret : {"app_secret"}, tr_id : {""}]
NoHeaders ==
    [authorization |-> "", appkey |-> "", appsecret |-> "", tr_id |-> ""]

\* exceptions get_headers() raises
AuthFailures == {"AuthenticationError", "TypeError"}

\* headers["tr_id"] = tr_id
WithTrId(headers, trId) == [headers EXCEPT !.tr_id = trId]

TransportIdle ==
    /\ hpc = [m \in Modes |-> "idle"]
    /\ hVerb = [m \in Modes |-> "GET"]
    /\ hTrId = [m \in Modes |-> ""]
    /\ hHeaders = [m \in Modes |-> NoHeaders]
    /\ hSent = [m \in Modes |-> <<>>]
    /\ hLog = [m \in Modes |-> <<>>]
    /\ hOut = [m \in Modes |-> "none"]

\* get(endpoint, tr_id, params) or post(endpoint, tr_id, json) is called:
\* the Transport calls auth.get_headers()
TransportCall(m, verb, trId) ==
    /\ hpc[m] = "idle"
    /\ hVerb' = [hVerb EXCEPT ![m] = verb]
    /\ hTrId' = [hTrId EXCEPT ![m] = trId]
    /\ hLog' = [hLog EXCEPT ![m] = Append(@, "get_headers")]
    /\ hpc' = [hpc EXCEPT ![m] = "auth"]
    /\ UNCHANGED <<hHeaders, hSent, hOut>>

\* get_headers() raises: the exception leaves get / post
HeadersRaise(m, e) ==
    /\ hpc[m] = "auth"
    /\ hOut' = [hOut EXCEPT ![m] = e]
    /\ hpc' = [hpc EXCEPT ![m] = "auth_raised"]
    /\ UNCHANGED <<hVerb, hTrId, hHeaders, hSent, hLog>>

\* get_headers() returns: tr_id is added and the request is issued
HeadersReturned(m, h) ==
    /\ hpc[m] = "auth"
    /\ hHeaders' = [hHeaders EXCEPT ![m] = h]
    /\ hSent' = [hSent EXCEPT ![m] =
                    Append(@, [verb |-> hVerb[m], headers |-> WithTrId(h, hTrId[m])])]
    /\ hLog' = [hLog EXCEPT ![m] = Append(@, "request")]
    /\ hpc' = [hpc EXCEPT ![m] = "awaiting"]
    /\ UNCHANGED <<hVerb, hTrId, hOut>>

\* the httpx call raises (no connection, timeout): the exception leaves
\* get / post
RequestRaises(m) ==
    /\ hpc[m] = "awaiting"
    /\ hOut' = [hOut EXCEPT ![m] = "HTTPError"]
    /\ hpc' = [hpc EXCEPT ![m] = "raised"]
    /\ UNCHANGED <<hVerb, hTrId, hHeaders, hSent, hLog>>

\* a Transport that issues the request again after a 429
ResponseHandled_RetryOn429(m, resp) ==
    /\ hpc[m] = "awaiting"
    /\ IF resp.status = 429 /\ Len(hSent[m]) < 2
       THEN /\ hSent' = [hSent EXCEPT ![m] = Append(@, hSent[m][1])]
            /\ hLog' = [hLog EXCEPT ![m] = Append(@, "request")]
            /\ UNCHANGED <<hOut, hpc>>
       ELSE LET out == IF m = "sync" THEN HandleResponse(resp)
                       ELSE AsyncHandleResponse(resp)
            IN /\ hOut' = [hOut EXCEPT ![m] = out]
               /\ hpc' = [hpc EXCEPT ![m] =
                            IF out = "none" THEN "returned" ELSE "raised"]
               /\ UNCHANGED <<hSent, hLog>>
    /\ UNCHANGED <<hVerb, hTrId, hHeaders>>

\* the response arrives and _handle_response returns its body or raises
ResponseHandled(m, resp) ==
    /\ hpc[m] = "awaiting"
    /\ LET out == IF m = "sync" THEN HandleResponse(resp)
                  ELSE AsyncHandleResponse(resp)
       IN /\ hOut' = [hOut EXCEPT ![m] = out]
          /\ hpc' = [hpc EXCEPT ![m] = IF out = "none" THEN "returned" ELSE "raised"]
    /\ UNCHANGED <<hVerb, hTrId, hHeaders, hSent, hLog>>

(***************************************************************************)
(* Specifications                                                          *)
(***************************************************************************)
RangeQuiet == RangeIdle /\ isPaper = FALSE

notAuth == <<peerVars, rangeVars, wsVars, modeVars, tickVars, ohlcvVars, kisVars, httpVars>>

notRange == <<authVars, peerVars, wsVars, modeVars, tickVars, ohlcvVars, kisVars, httpVars>>

InitRange ==
    /\ TransportIdle
    /\ KisEntered
    /\ OhlcvQuiet
    /\ AuthQuiet /\ PeerAbsent /\ WsConstructed /\ ModesIdle /\ DecoderQuiet
    /\ RangeIdle
    /\ isPaper \in BOOLEAN

NextRange ==
    \/ \E a \in RangeArgs : FetchOhlcvRange(a) /\ UNCHANGED notRange
    \/ \E iv \in {1, 5} : FetchMinuteOhlcv(iv) /\ UNCHANGED notRange
    \/ KisFetchMinuteOhlcvRange /\ UNCHANGED notRange
    \/ WindowRequest /\ UNCHANGED notRange
    \/ MinuteRequest /\ UNCHANGED notRange
    \/ WindowAuthFail /\ UNCHANGED notRange
    \/ WindowFails /\ UNCHANGED notRange
    \/ WindowMerged /\ UNCHANGED notRange
    \/ MinuteMerged /\ UNCHANGED notRange
    \/ RateLimitSleep /\ UNCHANGED notRange
    \/ RangeReturn /\ UNCHANGED notRange

SpecRange == InitRange /\ [][NextRange]_vars

InitAuth ==
    /\ TransportIdle
    /\ KisEntered
    /\ OhlcvQuiet
    /\ AuthConstructed
    /\ PeerAbsent /\ RangeQuiet /\ WsConstructed /\ ModesIdle /\ DecoderQuiet

NextAuth ==
    \/ \E c \in Callers : GetHeadersCall(c) /\ UNCHANGED notAuth
    \/ \E c \in Callers : RefreshHttpError(c) /\ UNCHANGED notAuth
    \/ \E c \in Callers : RefreshBadBody(c) /\ UNCHANGED notAuth
    \/ \E c \in Callers : RefreshNoToken(c) /\ UNCHANGED notAuth
    \/ \E c \in Callers : RefreshOk(c) /\ UNCHANGED notAuth
    \/ \E c \in Callers : GetHeadersFinish(c) /\ UNCHANGED notAuth
    \/ Tick /\ UNCHANGED notAuth

SpecAuth == InitAuth /\ [][NextAuth]_vars

\* two managers on one token file; the first is used by one caller at a time
notStore == <<rangeVars, wsVars, modeVars, tickVars, ohlcvVars, kisVars, httpVars>>

InitStore == InitAuth

NextStore ==
    \/ GetHeadersCall(1) /\ UNCHANGED <<peerVars, notStore>>
    \/ RefreshHttpError(1) /\ UNCHANGED <<peerVars, notStore>>
    \/ RefreshBadBody(1) /\ UNCHANGED <<peerVars, notStore>>
    \/ RefreshNoToken(1) /\ UNCHANGED <<peerVars, notStore>>
    \/ RefreshOk(1) /\ UNCHANGED <<peerVars, notStore>>
    \/ GetHeadersFinish(1) /\ UNCHANGED <<peerVars, notStore>>
    \/ Tick /\ UNCHANGED <<peerVars, notStore>>
    \/ PeerConstruct /\ UNCHANGED <<authVars, notStore>>
    \/ PeerGetHeaders /\ UNCHANGED <<authVars, notStore>>

SpecStore == InitStore /\ [][NextStore]_vars

notWs == <<authVars, peerVars, rangeVars, modeVars, tickVars, ohlcvVars, kisVars, httpVars>>

InitWs ==
    /\ TransportIdle
    /\ KisEntered
    /\ OhlcvQuiet
    /\ AuthQuiet /\ PeerAbsent /\ RangeQuiet /\ ModesIdle /\ DecoderQuiet
    /\ WsConstructed

NextWs ==
    \/ Connect /\ UNCHANGED notWs
    \/ ConnectFails /\ UNCHANGED notWs
    \/ Disconnect /\ UNCHANGED notWs
    \/ Drop /\ UNCHANGED notWs
    \/ \E w \in Watchers : WatchTicker(w) /\ UNCHANGED notWs
    \/ VendorFrame /\ UNCHANGED notWs
    \/ \E w \in Watchers : Receive(w) /\ UNCHANGED notWs
    \/ \E w \in Watchers : StreamEnds(w) /\ UNCHANGED notWs

SpecWs == InitWs /\ [][NextWs]_vars

notModes == <<authVars, peerVars, rangeVars, wsVars, tickVars, ohlcvVars, kisVars, httpVars>>

InitModes ==
    /\ TransportIdle
    /\ KisEntered
    /\ OhlcvQuiet
    /\ AuthQuiet /\ PeerAbsent /\ RangeQuiet /\ WsConstructed /\ DecoderQuiet
    /\ ModesIdle

NextModes ==
    \/ \E o \in Operations, r \in TransportResponses :
          KisCall(o, r) /\ UNCHANGED notModes
    \/ \E o \in Operations, r \in TransportResponses :
          AsyncKisCall(o, r) /\ UNCHANGED notModes

SpecModes == InitModes /\ [][NextModes]_vars

notTicker == <<authVars, peerVars, rangeVars, wsVars, modeVars, ohlcvVars, kisVars, httpVars>>

InitTicker ==
    /\ TransportIdle
    /\ KisEntered
    /\ OhlcvQuiet
    /\ AuthQuiet /\ PeerAbsent /\ RangeQuiet /\ WsConstructed /\ ModesIdle
    /\ DecoderIdle

NextTicker ==
    \/ StreamDecode /\ UNCHANGED notTicker
    \/ RestDecode /\ UNCHANGED notTicker

SpecTicker == InitTicker /\ [][NextTicker]_vars

notOhlcv == <<authVars, peerVars, rangeVars, wsVars, modeVars, tickVars, kisVars, httpVars>>

InitOhlcv ==
    /\ TransportIdle
    /\ KisEntered
    /\ AuthQuiet /\ PeerAbsent /\ RangeQuiet /\ WsConstructed /\ ModesIdle
    /\ DecoderQuiet
    /\ OhlcvIdle

NextOhlcv ==
    \/ FetchOhlcv /\ UNCHANGED notOhlcv
    \/ AsyncFetchOhlcv /\ UNCHANGED notOhlcv

SpecOhlcv == InitOhlcv /\ [][NextOhlcv]_vars

notKis == <<authVars, peerVars, rangeVars, modeVars, tickVars, ohlcvVars, httpVars>>

InitKis ==
    /\ TransportIdle
    /\ AuthQuiet /\ PeerAbsent /\ RangeQuiet /\ ModesIdle /\ DecoderQuiet
    /\ OhlcvQuiet
    /\ WsConstructed
    /\ KisEntered

NextKis ==
    \/ KisRequest /\ UNCHANGED notKis
    \/ \E t \in Watchers : EnsureWsConnected(t) /\ UNCHANGED notKis
    \/ \E t \in Watchers : EnsureConnected(t) /\ UNCHANGED notKis
    \/ \E t \in Watchers : EnsureConnectFails(t) /\ UNCHANGED notKis
    \/ \E t \in Watchers : KisWatchTicker(t) /\ UNCHANGED notKis
    \/ VendorFrame /\ UNCHANGED <<kisVars, notKis>>
    \/ \E w \in Watchers : Receive(w) /\ UNCHANGED <<kisVars, notKis>>
    \/ \E w \in Watchers : StopIterating(w) /\ UNCHANGED <<kisVars, notKis>>
    \/ \E w \in Watchers : StreamEnds(w) /\ UNCHANGED <<kisVars, notKis>>
    \/ \E how \in {"normal", "exception"} : AExit(how) /\ UNCHANGED notKis
    \/ CloseWs /\ UNCHANGED notKis

SpecKis == InitKis /\ [][NextKis]_vars

notHttp == <<authVars, peerVars, rangeVars, wsVars, modeVars, tickVars, ohlcvVars,
             kisVars>>

InitHttp ==
    /\ AuthQuiet /\ PeerAbsent /\ RangeQuiet /\ WsConstructed /\ ModesIdle
    /\ DecoderQuiet /\ OhlcvQuiet /\ KisEntered
    /\ TransportIdle

NextHttp ==
    \/ \E m \in Modes, verb \in Verbs, trId \in TrIds :
          TransportCall(m, verb, trId) /\ UNCHANGED notHttp
    \/ \E m \in Modes, e \in AuthFailures : HeadersRaise(m, e) /\ UNCHANGED notHttp
    \/ \E m \in Modes, h \in AuthHeaders : HeadersReturned(m, h) /\ UNCHANGED notHttp
    \/ \E m \in Modes : RequestRaises(m) /\ UNCHANGED notHttp
    \/ \E m \in Modes, resp \in TransportResponses :
          ResponseHandled(m, resp) /\ UNCHANGED notHttp

SpecHttp == InitHttp /\ [][NextHttp]_vars


(***************************************************************************)
(* Auth Manager: properties                                                *)
(***************************************************************************)
\* callers now inside _refresh() (each found the Credential expired)
Refreshing == {c \in Callers : pc[c] \in {"awaiting", "closing"}}

\* C1: when two or more concurrent get_headers() calls all found the
\* Credential expired or absent, exactly one token-issuance call was made for
\* all of them.
C1_SingleFlight ==
    Cardinality(Refreshing) >= 2 =>
        Cardinality({c \in Refreshing : callsBy[c] = 1}) = 1

\* C2: a get_headers() call that returned carries the held token, valid for
\* more than the safety margin at the moment of return; a call that did not
\* return raised AuthenticationError.
C2_ValidOrAuthError ==
    \A c \in Callers :
        /\ pc[c] = "returned" => retValid[c]
        /\ pc[c] = "raised" => err[c] = "AuthenticationError"

\* C3: a _refresh() that fails raises AuthenticationError and leaves the held
\* token, the held expiry and the token file exactly as they were.
C3_FailedRefreshKeepsState ==
    [][\A c \in Callers :
          (pc[c] = "awaiting" /\ pc'[c] = "closing" /\ pending'[c] # "ok") =>
              /\ pending'[c] = "AuthenticationError"
              /\ token' = token
              /\ expires' = expires
              /\ store' = store]_vars

\* C4: a get_headers() call made after a successful refresh, while now is
\* before that Credential's expiry minus the margin, issues no token-issuance
\* call and returns the token that refresh produced.
C4_ReuseAfterRefresh ==
    \A c \in Callers :
        oblig[c] # {} =>
            /\ callsBy[c] = 0
            /\ pc[c] = "returned" => \A t \in oblig[c] : ret[c] = t

(***************************************************************************)
(* Range aggregator: properties                                            *)
(***************************************************************************)
\* the items of all window responses, in the order they were merged
RECURSIVE Flatten(_)
Flatten(ss) == IF ss = <<>> THEN <<>> ELSE Head(ss) \o Flatten(Tail(ss))

Ascending(series) ==
    \A i \in 1..(Len(series) - 1) : series[i].timestamp < series[i + 1].timestamp

C6_RangeCoverage ==
    (op = "range" /\ rpc = "done") =>
        \A i \in 1..Len(result) : StartDt <= result[i].dt /\ result[i].dt <= EndDt

\* a non-empty series was returned after the vendor sent an item dated
\* outside the requested range
C6_Witness ==
    /\ op = "range"
    /\ rpc = "done"
    /\ result # <<>>
    /\ \E i \in 1..Len(Flatten(responses)) :
          /\ Flatten(responses)[i].date # 0
          /\ \/ Strptime(Flatten(responses)[i].date) < StartDt
             \/ Strptime(Flatten(responses)[i].date) > EndDt

\* C7: the returned series is strictly ascending by timestamp.
C7_StrictlyAscending == (op = "range" /\ rpc = "done") => Ascending(result)

\* two candles were returned whose items arrived newest first
C7_Witness ==
    /\ op = "range"
    /\ rpc = "done"
    /\ Len(result) >= 2
    /\ Len(allData) >= 2
    /\ allData[1].key > allData[2].key

\* an item the pass keeps: in [start, end] for fetch_ohlcv_range; dated, timed
\* and on the interval grid for fetch_minute_ohlcv
Admitted(item) ==
    IF op = "range"
    THEN InRange(item.date, startStr, endStr)
    ELSE item.date # 0 /\ item.time # 0 /\ KeptByInterval(item.time, interval)

\* the bucket key of an item (date, or date and time), and the datetime of
\* the candle of a key (days for daily candles, minutes for minute candles)
KeyOf(item) == <<item.date, item.time>>

KeyDatetime(k) ==
    IF op = "range"
    THEN Strptime(k[1])
    ELSE Strptime(k[1]) * 1440 + (k[2] \div 10000) * 60 + MinuteOf(k[2])

\* the admitted bucket keys the vendor returned during the pass
FetchedKeys ==
    {KeyOf(Flatten(responses)[i]) : i \in
        {j \in 1..Len(Flatten(responses)) : Admitted(Flatten(responses)[j])}}

\* the value of the item fetched last for bucket key k
LastFetched(k) ==
    LET flat == Flatten(responses)
        last == CHOOSE i \in 1..Len(flat) :
                    /\ KeyOf(flat[i]) = k
                    /\ \A j \in (i + 1)..Len(flat) : KeyOf(flat[j]) # k
    IN flat[last].val

\* C8: a bucket key of the requested series that the windows of a pass
\* returned more than once, with different values, has exactly one entry in
\* the merged series, holding the value of the window processed last.
C8_LastFetchedWins ==
    rpc = "done" =>
        \A k \in FetchedKeys :
            /\ Cardinality({i \in 1..Len(result) : result[i].dt = KeyDatetime(k)}) = 1
            /\ \A i \in 1..Len(result) :
                  result[i].dt = KeyDatetime(k) => result[i].close = LastFetched(k)

\* two windows of the pass returned the same in-range key with different values
C8_Witness ==
    /\ op = "range"
    /\ rpc = "done"
    /\ \E w1, w2 \in 1..Len(responses) :
          /\ w1 < w2
          /\ \E i \in 1..Len(responses[w1]), j \in 1..Len(responses[w2]) :
                /\ responses[w1][i].date = responses[w2][j].date
                /\ InRange(responses[w1][i].date, startStr, endStr)
                /\ responses[w1][i].val # responses[w2][j].val

\* a daily request spanning 300 days
Spans300Days == op = "range" /\ timeframe = "1d" /\ EndDt - StartDt \in {299, 300}

\* C9: a daily request spanning 300 days issues exactly two windowed calls,
\* the most recent window first and the older one second, and returns an
\* ascending series.
C9_TwoWindows ==
    Spans300Days =>
        /\ Len(windows) <= 2
        /\ rpc = "done" =>
              /\ Len(windows) = 2
              /\ requestCount = 2
              /\ windows[1].d2 = endStr
              /\ windows[2].d2 < windows[1].d1
              /\ windows[2].d1 = startStr
              /\ Ascending(result)

\* a 300-day daily pass returned candles from both of its windows
C9_Witness ==
    /\ Spans300Days
    /\ rpc = "done"
    /\ Len(result) >= 2
    /\ Len(responses) = 2
    /\ responses[1] # <<>>
    /\ responses[2] # <<>>

(***************************************************************************)
(* Streaming feed: properties                                              *)
(***************************************************************************)
\* C10: every record a watch_ticker(symbol) sequence yielded was decoded from
\* a ticker data frame whose payload symbol is that symbol.
C10_FilteredBySymbol ==
    \A w \in Watchers :
        \A i \in 1..Len(yielded[w]) :
            /\ yielded[w][i].frame.sym = WatchSymbol(w)
            /\ yielded[w][i].frame.trId = TR_ID_TICKER
            /\ yielded[w][i].ticker.symbol = yielded[w][i].frame.sym

\* a data frame _parse_ticker_message rejects / accepts
IsMalformed(f) == ~f.ctl /\ f.shape # "ok"

IsValidData(f) == ~f.ctl /\ f.shape = "ok"

\* C11: in a watch_ticker sequence the frames that yielded a Tick are exactly
\* the well-formed data frames the sequence took, in order (a malformed frame
\* yields nothing, and a valid frame taken after it still yields), and the
\* sequence is still running after a malformed frame while its socket is open.
C11_DecodeResilience ==
    \A w \in Watchers :
        /\ [i \in 1..Len(yielded[w]) |-> yielded[w][i].frame]
               = SelectSeq(taken[w], IsValidData)
        /\ (/\ taken[w] # <<>>
            /\ IsMalformed(taken[w][Len(taken[w])])
            /\ sockOpen[wsock[w]]) => wpc[w] = "streaming"

\* a sequence took a malformed frame and then a valid one, which it yielded
C11_Witness ==
    \E w \in Watchers :
        /\ Len(taken[w]) = 2
        /\ IsMalformed(taken[w][1])
        /\ IsValidData(taken[w][2])
        /\ Len(yielded[w]) = 1
        /\ yielded[w][1].frame = taken[w][2]

\* the subscription message of watch_ticker generator w on socket k
Subscription(w, k) == [sock |-> k, tr_id |-> TR_ID_TICKER, tr_key |-> WatchSymbol(w)]

\* C12: a watch call made while no socket is held (before connect() or after
\* disconnect()) raises RuntimeError and sends nothing; a watch call on an
\* open held socket sends its subscription before it takes any frame; and a
\* socket is opened, and becomes the held socket, only in a connect() call.
C12_StateMachine ==
    [][/\ \A w \in Watchers :
             (wpc[w] = "idle" /\ wpc'[w] # "idle") =>
                 /\ ws = 0 =>
                       /\ wpc'[w] = "raised"
                       /\ werr'[w] = "RuntimeError"
                       /\ sentMsgs' = sentMsgs
                 /\ (ws # 0 /\ sockOpen[ws]) =>
                       /\ wpc'[w] = "streaming"
                       /\ Subscription(w, ws) \in sentMsgs'
                       /\ taken'[w] = <<>>
       /\ \A w \in Watchers :
             taken'[w] # <<>> => Subscription(w, wsock'[w]) \in sentMsgs
       /\ Len(sockOpen') # Len(sockOpen) => connects' = connects + 1
       /\ (ws' # ws /\ ws' # 0) => connects' = connects + 1
       /\ \A k \in 1..Len(sockOpen) : ~sockOpen[k] => ~sockOpen'[k]]_vars

\* one watch call raised after disconnect() while another sequence, started
\* while connected, had taken a frame from a socket the client has since closed
C12_Witness ==
    /\ ws = 0
    /\ connects >= 1
    /\ \E w1, w2 \in Watchers :
          /\ wpc[w1] = "raised"
          /\ werr[w1] = "RuntimeError"
          /\ taken[w2] # <<>>
          /\ ~sockOpen[wsock[w2]]

(***************************************************************************)
(* Auth Manager: properties (continued)                                    *)
(***************************************************************************)
\* C13: a get_headers() call issues at most one token-issuance POST; when the
\* POST fails (transport error or error status) the call issues no other, and
\* the failure leaves get_headers() as AuthenticationError.
C13_NoRetry ==
    /\ netCalls <= ncalls
    /\ \A c \in Callers :
          /\ callsBy[c] <= 1
          /\ cause[c] = "http" =>
                /\ callsBy[c] = 1
                /\ pc[c] \in {"closing", "raised"}
                /\ pc[c] = "closing" => pending[c] = "AuthenticationError"
                /\ pc[c] = "raised" => err[c] = "AuthenticationError"

\* a call whose POST failed has raised, after an earlier call had refreshed
C13_Witness ==
    \E c \in Callers :
        /\ cause[c] = "http"
        /\ pc[c] = "raised"
        /\ netCalls >= 2
        /\ issued # {}

\* the current call of the first manager refreshed and the refresh succeeded
RefreshedOk ==
    /\ pc[1] \in {"closing", "returned"}
    /\ callsBy[1] = 1
    /\ cause[1] = "none"

\* C16: after a successful refresh the token file holds exactly the token and
\* the expiry the manager holds; a second manager constructed on that file
\* before the expiry holds the same token and expiry; and a get_headers() of
\* the second manager issues no token-issuance POST while its token is
\* outside the five-minute margin.
C16_StoreShared ==
    [][/\ RefreshedOk' =>
             /\ store'.kind = "json"
             /\ store'.token = token'
             /\ FromIsoformat(store'.expires_at) = expires'
       /\ (peerPc = "absent" /\ peerPc' # "absent" /\ RefreshedOk /\ now < expires) =>
             /\ peerPc' = "built"
             /\ peerToken' = token
             /\ peerExpires' = expires
       /\ (/\ peerPc \in {"built", "returned"}
           /\ peerPc' = "awaiting") =>
             ~(peerToken # NoToken /\ peerExpires # NoExpiry
                 /\ now < peerExpires - 5 * 60)
       /\ (/\ peerPc = "built"
           /\ peerPc' # "built"
           /\ peerToken # NoToken /\ peerExpires # NoExpiry
           /\ now < peerExpires - 5 * 60) =>
             peerPc' = "returned" /\ peerCalls' = 0]_vars

\* the second manager loaded the Credential a refresh of the first produced
\* and returned headers from it without a POST
C16_Witness ==
    /\ peerPc = "returned"
    /\ peerCalls = 0
    /\ peerToken = "tokB"
    /\ peerToken = token
    /\ peerExpires = expires
    /\ [tok |-> peerToken, exp |-> peerExpires] \in issued

\* C17: whatever the token file holds that is not a loadable Credential,
\* construction raises nothing and the manager holds no Credential, so that
\* _is_expired() is true.
C17_LoadTolerant ==
    (ncalls = 0 /\ store.kind # "json") =>
        /\ loadErr = "none"
        /\ token = NoToken
        /\ expires = NoExpiry
        /\ IsExpired

\* C18: a get_headers() call finds the Credential expired, and so issues the
\* POST, exactly when no token or no expiry is held or now is at or past the
\* expiry minus five minutes; the test changes neither the held Credential
\* nor the token file.
C18_IsExpiredPure ==
    [][ncalls' = ncalls + 1 =>
          /\ (netCalls' = netCalls + 1) <=>
                (token = NoToken \/ expires = NoExpiry \/ now >= expires - 5 * 60)
          /\ token' = token
          /\ expires' = expires
          /\ store' = store]_vars

\* a call made with a Credential held, exactly five minutes before its
\* expiry, found it expired (no other call was in progress)
C18_Witness ==
    \E c \in Callers :
        /\ pc[c] = "awaiting"
        /\ callsBy[c] = 1
        /\ token # NoToken
        /\ expires # NoExpiry
        /\ now = expires - 5 * 60
        /\ \A d \in Callers \ {c} : pc[d] = "idle"

(***************************************************************************)
(* Transport and execution modes: properties                               *)
(***************************************************************************)
\* the call in mode m reached the Transport
UsesTransport(m) ==
    /\ mOut[m] # "idle"
    /\ m = "sync" => mOp \in KisMethods \ {"fetch_minute_ohlcv_range"}
    /\ m = "async" => mOp \in AsyncKisMethods \ {"watch_ticker", "watch_order_book"}

\* the error kind the vendor-code table gives
TableKind(code) ==
    CASE code = "EGW00001" -> "AuthenticationError"
      [] code = "EGW00002" -> "TokenExpiredError"
      [] code = "OPSP0001" -> "InsufficientBalanceError"
      [] code = "OPSP0010" -> "MarketClosedError"
      [] OTHER -> "APIError"

\* C14 as stated: a response whose body carries a result code other than "0"
\* is never returned; the error kind of the table for its msg_cd is raised,
\* APIError when the table has no entry.
C14_MappedKind ==
    \A m \in Modes :
        (UsesTransport(m) /\ mResp.json /\ mResp.rt_cd # "0") =>
            mOut[m] = TableKind(mResp.msg_cd)

\* C14 amended: the same for every response whose HTTP status is not 429; a
\* response with status 429 raises RateLimitError whatever its body says.
C14_MappedKindUnless429 ==
    \A m \in Modes :
        /\ (UsesTransport(m) /\ mResp.status # 429 /\ mResp.json /\ mResp.rt_cd # "0") =>
              mOut[m] = TableKind(mResp.msg_cd)
        /\ (UsesTransport(m) /\ mResp.status = 429) => mOut[m] = "RateLimitError"

\* a failed result code with a mapped msg_cd was answered to the synchronous
\* client, which raised
C14_Witness ==
    /\ UsesTransport("sync")
    /\ mResp.status = 200
    /\ mResp.json
    /\ mResp.rt_cd = "1"
    /\ mResp.msg_cd = "OPSP0010"
    /\ mOut["sync"] = "MarketClosedError"

\* C15: every operation is offered in both modes, and an operation answered
\* with the same vendor response returns in both modes or raises the same
\* error kind in both.
C15_ModesEquivalent ==
    (mOut["sync"] # "idle" /\ mOut["async"] # "idle") =>
        /\ mOp \in KisMethods <=> mOp \in AsyncKisMethods
        /\ mOut["sync"] = mOut["async"]

(***************************************************************************)
(* Ticker decoding: properties                                             *)
(***************************************************************************)
\* C19: under a fall code ("4" or "5") the change and the change_percent of
\* the Ticker are the negated magnitudes of the raw fields, so both <= 0,
\* for a streamed tick and for fetch_ticker alike.
C19_FallIsNegative ==
    (decoder # "none" /\ quote.sign \in {"4", "5"}) =>
        /\ decoded.change <= 0
        /\ decoded.change_percent <= 0
        /\ decoded.change \in {quote.change, -quote.change}
        /\ decoded.change_percent \in {quote.pct, -quote.pct}

\* fetch_ticker decoded a fall whose raw change and rate were positive
C19_Witness ==
    /\ decoder = "rest"
    /\ quote.sign = "5"
    /\ quote.change > 0
    /\ quote.pct > 0
    /\ decoded.change < 0
    /\ decoded.change_percent < 0

(***************************************************************************)
(* Range aggregator: properties (continued)                                *)
(***************************************************************************)
\* C20: fetch_minute_ohlcv_range raises ValueError on a paper-trading client
\* and, on a live client, does not fail at the call but returns the minute
\* candles of the range in ascending order.
C20_MinuteRange ==
    op = "minute_range" =>
        /\ isPaper => (rpc = "raised" /\ rerr = "ValueError")
        /\ ~isPaper => (rerr # "AttributeError" /\ (rpc = "done" => Ascending(result)))

\* the vendor's items that are candles (an empty entry is none)
VendorCandles == SelectSeq(ItemsOf(fData), LAMBDA item : item # EmptyItem)

\* the k most recent of the vendor's candles, oldest first; all of them
\* when no limit is given
MostRecent(k) ==
    LET n == Len(VendorCandles)
        kept == IF k < n THEN k ELSE n
    IN [i \in 1..kept |-> FromKis(VendorCandles[kept + 1 - i])]

\* C21: fetch_ohlcv returns the vendor's newest-first list oldest first;
\* with limit = k it returns the k most recent candles, min(k, n) of them,
\* and the synchronous and the asynchronous variant return the same list.
C21_ReversedAndLimited ==
    (fDone["sync"] /\ fDone["async"]) =>
        /\ fOut["sync"] = fOut["async"]
        /\ fOut["sync"] =
              MostRecent(IF fLimit.given THEN fLimit.k ELSE Len(VendorCandles))

\* C22: when the async with block of AsyncKIS has been left, normally or
\* by an exception, the Transport was closed by exactly one close() call,
\* every httpx client it created was closed exactly once and none is held;
\* a WebSocketClient that was held has been disconnected (its socket, if it
\* had one, is closed) and no WebSocketClient is held.
C22_ExitCloses ==
    [][/\ httpAclosed' <= httpOpened'
       /\ (kpc = "closing" /\ kpc' = "left") =>
             /\ kExit' \in {"normal", "exception"}
             /\ httpCloseCalls' = 1
             /\ ~kHttp'
             /\ httpAclosed' = httpOpened'
             /\ ~kWs'
             /\ kWs => /\ wsDisconnects' = wsDisconnects + 1
                       /\ ws' = 0
                       /\ ws # 0 => ~sockOpen'[ws]]_vars

\* the block was left by an exception after a request and a watch_ticker
\* call: the httpx client and the socket are closed
C22_Witness ==
    /\ kpc = "left"
    /\ kExit = "exception"
    /\ httpOpened = 1 /\ httpAclosed = 1
    /\ wsCreated = 1 /\ wsDisconnects = 1
    /\ sockOpen = <<FALSE>>
    /\ ~kWs

(***************************************************************************)
(* Range aggregator: the windows of one pass                               *)
(***************************************************************************)
\* first and last day of the i-th window requested, as day numbers
WinStart(i) == Strptime(windows[i].d1)
WinEnd(i) == Strptime(windows[i].d2)

\* the days the windows requested so far cover
DaysRequested == UNION {WinStart(i)..WinEnd(i) : i \in 1..Len(windows)}

\* C23: the windows of one fetch_ohlcv_range pass, in issue order, start at
\* end, each next one ends the day before the previous one starts, each
\* spans at most chunk_days + 1 days and none reaches before start; they are
\* pairwise disjoint and issued newest first, a call is issued only when
\* every earlier call has returned, and when the pass returns the last
\* window starts at start and the windows cover exactly [start, end].
C23_WindowsTile ==
    op = "range" =>
        /\ \A i \in 1..Len(windows) :
              /\ WinStart(i) <= WinEnd(i)
              /\ WinEnd(i) - WinStart(i) + 1 <= ChunkDays(timeframe) + 1
              /\ WinStart(i) >= StartDt
        /\ windows # <<>> => windows[1].d2 = endStr
        /\ \A i \in 1..(Len(windows) - 1) : WinEnd(i + 1) = WinStart(i) - 1
        /\ \A i, j \in 1..Len(windows) :
              i < j => (WinStart(i)..WinEnd(i)) \cap (WinStart(j)..WinEnd(j)) = {}
        /\ Len(windows) = Len(responses) + (IF rpc = "awaiting" THEN 1 ELSE 0)
              \/ (rpc = "raised" /\ Len(windows) = Len(responses) + 1)
        /\ rpc = "done" =>
              /\ windows # <<>> => windows[Len(windows)].d1 = startStr
              /\ DaysRequested = StartDt..EndDt

\* a pass over 303 days returned after three windows
C23_Witness ==
    /\ op = "range"
    /\ rpc = "done"
    /\ Len(windows) = 3
    /\ EndDt - StartDt = 302

\* the steps a pass may still take: three for every day from start up to
\* current_end, and the position within the iteration
StepsLeft ==
    IF rpc \in {"done", "raised"} THEN -1
    ELSE 3 * (IF currentEnd >= StartDt THEN currentEnd - StartDt + 1 ELSE 0)
         + (CASE rpc = "awaiting" -> 0
              [] rpc = "loop" -> 1
              [] rpc = "sleeping" -> 2)

\* C24: for every start and end the fetch_ohlcv_range loop terminates: a
\* pass that has not returned or raised can always take a step, and every
\* step lowers a bounded measure; current_end moves strictly backward on
\* every iteration, no call is issued once it is before start, the number
\* of calls is bounded by the length of the range, and a pass whose start
\* is after its end issues no call and returns an empty series.
C24_Terminates ==
    /\ [](op = "range" =>
            /\ StepsLeft >= -1
            /\ rpc \notin {"done", "raised"} => ENABLED NextRange
            /\ currentEnd < StartDt => rpc \in {"loop", "done"}
            /\ Len(windows) <= (EndDt - StartDt) \div (ChunkDays(timeframe) + 1) + 1
            /\ StartDt > EndDt =>
                  /\ windows = <<>>
                  /\ requestCount = 0
                  /\ rpc = "done" => result = <<>>)
    /\ [][op = "range" =>
             /\ StepsLeft' < StepsLeft
             /\ requestCount' # requestCount =>
                   /\ requestCount' = requestCount + 1
                   /\ currentEnd' < currentEnd]_vars

\* a pass whose start is after its end returned without a call
C24_Witness ==
    /\ op = "range"
    /\ StartDt > EndDt
    /\ rpc = "done"
    /\ requestCount = 0
    /\ result = <<>>

\* C25: in one fetch_ohlcv_range pass the k-th windowed call is issued after
\* exactly k - 1 rate-limit sleeps, one between every two consecutive calls,
\* and a pass that returns has slept once less than it has called: no sleep
\* follows the last window.
C25_SleepBetweenCalls ==
    /\ [](op = "range" =>
            /\ rpc = "awaiting" => sleeps = Len(windows) - 1
            /\ rpc = "sleeping" => sleeps = Len(windows) - 1 /\ MoreWindows
            /\ rpc = "done" =>
                  sleeps = (IF windows = <<>> THEN 0 ELSE Len(windows) - 1))
    /\ [][(op = "range" /\ Len(windows') = Len(windows) + 1) =>
             /\ sleeps = Len(windows)
             /\ sleeps' = sleeps]_vars
    /\ [][(op = "range" /\ sleeps' # sleeps) =>
             /\ sleeps' = sleeps + 1
             /\ Len(windows) = sleeps'
             /\ rpc' = "loop"
             /\ MoreWindows']_vars

\* a pass of three windows returned after two sleeps
C25_Witness ==
    /\ op = "range"
    /\ rpc = "done"
    /\ requestCount = 3
    /\ sleeps = 2

(***************************************************************************)
(* Transport: properties                                                   *)
(***************************************************************************)
\* C26: a get or post call of either Transport calls get_headers() first
\* and then issues one HTTP request, with its verb and with the headers
\* get_headers() returned plus tr_id; when get_headers() raises no request
\* is issued; and whatever the response (HTTP 429, an unparsable body, a
\* failed result code) the call ends with one request issued.
C26_OneRequestAfterHeaders ==
    \A m \in Modes :
        /\ hLog[m] \in {<<>>, <<"get_headers">>, <<"get_headers", "request">>}
        /\ Len(hSent[m]) = (IF Len(hLog[m]) = 2 THEN 1 ELSE 0)
        /\ hpc[m] \in {"awaiting", "returned"} => Len(hSent[m]) = 1
        /\ Len(hSent[m]) = 1 =>
              /\ hSent[m][1].verb = hVerb[m]
              /\ hSent[m][1].headers.tr_id = hTrId[m]
              /\ hSent[m][1].headers.authorization = hHeaders[m].authorization
              /\ hSent[m][1].headers.appkey = hHeaders[m].appkey
              /\ hSent[m][1].headers.appsecret = hHeaders[m].appsecret
              /\ hHeaders[m] \in AuthHeaders
        /\ hpc[m] = "auth_raised" => hSent[m] = <<>> /\ hOut[m] \in AuthFailures
        /\ hpc[m] = "raised" => Len(hSent[m]) = 1 /\ hOut[m] # "none"

\* both Transports raised on a response: RateLimitError on one, a mapped
\* result-code error on the other
C26_Witness ==
    /\ hpc["sync"] = "raised" /\ hOut["sync"] = "RateLimitError"
    /\ hpc["async"] = "raised" /\ hOut["async"] = "InsufficientBalanceError"
    /\ Len(hSent["sync"]) = 1
    /\ Len(hSent["async"]) = 1

\* C27: fetch_minute_ohlcv returns the retrieved buckets whose minute of
\* the hour is a multiple of the interval (every retrieved bucket for
\* interval = 1), one candle per date and time bucket, ascending by time; a
\* retrieved bucket does not make the call fail.
C27_MinuteFilter ==
    op = "minute" =>
        /\ rerr # "ValidationError"
        /\ rpc = "done" =>
              /\ {result[i].dt : i \in 1..Len(result)} =
                    {KeyDatetime(k) : k \in FetchedKeys}
              /\ Len(result) = Cardinality(FetchedKeys)
              /\ Ascending(result)

(***************************************************************************)
(* AsyncKIS: properties                                                    *)
(***************************************************************************)
\* C28: when the consumer of a watch_ticker sequence stops iterating, the
\* socket stays open and held; a socket opened by the client is closed by
\* the client only in a disconnect() (here the one close() makes), which
\* drops the socket it held.
C28_StopKeepsSocket ==
    [][/\ \A w \in Watchers :
             (wpc[w] = "streaming" /\ wpc'[w] = "stopped") =>
                 /\ sockOpen' = sockOpen
                 /\ ws' = ws
                 /\ kWs' = kWs
       /\ \A k \in 1..Len(sockOpen) :
             (sockOpen[k] /\ ~sockOpen'[k]) =>
                 kpc = "closing" /\ kpc' = "left" /\ ws = k /\ ws' = 0]_vars

\* a consumer stopped after a tick and the socket is open and held
C28_Witness ==
    /\ wpc[1] = "stopped"
    /\ yielded[1] # <<>>
    /\ wsock[1] = ws
    /\ sockOpen[ws]
    /\ kWs
    /\ kpc = "inside"

\* C29: under every interleaving of watch_ticker calls on one AsyncKIS, and
\* after a connect attempt that failed, _ensure_ws_connected creates at most
\* one WebSocketClient, connects it successfully at most once, never returns
\* a client whose connect() has not completed, and no watch call fails with
\* the "not connected" RuntimeError.
C29_EnsureConnected ==
    /\ wsCreated <= 1
    /\ Len(sockOpen) <= 1
    /\ \A t \in Watchers :
          /\ handed[t] # "unconnected"
          /\ werr[t] # "RuntimeError"

\* C30: after any sequence of connect() and disconnect() calls on one
\* WebSocketClient at most one socket is open, an open socket is the one
\* the client holds, and with no socket held (after disconnect()) none is
\* open.
C30_AtMostOneSocket ==
    /\ Cardinality({k \in 1..Len(sockOpen) : sockOpen[k]}) <= 1
    /\ \A k \in 1..Len(sockOpen) : sockOpen[k] => k = ws
    /\ ws = 0 => \A k \in 1..Len(sockOpen) : ~sockOpen[k]

====
